---- MODULE Spec2Model ----
(***************************************************************************)
(* Verification engine of the quest-verification API: BlockchainService    *)
(* (src/src/services/blockchain.ts), the VerificationController in front   *)
(* of it (src/src/controllers/verification.ts) and the ConfigLoader it     *)
(* reads (src/src/config/config-loader.ts).                                *)
(*                                                                         *)
(* Every verification call is one asynchronous task.  A task is suspended  *)
(* at an await of hasInteracted / hasInteractedInTimeRange /               *)
(* checkActivityFast; everything the code does between two such awaits is  *)
(* one atomic step (Node's single thread).  The helpers whose awaits have  *)
(* nothing but local computation between them (getApproximateBlockForDate, *)
(* checkDirectTransactionInteractions, queryWithRetry) resolve in one      *)
(* step.  Time is the millisecond clock `now` (performance.now() and       *)
(* Date.now()); a timer that is due fires before the clock moves on.       *)
(***************************************************************************)
EXTENDS Integers, Sequences, FiniteSets, TLC

(***************************************************************************)
(* Program constants                                                       *)
(***************************************************************************)
RECENT_BLOCKS == 2500
CACHE_TTL == 3600
MAX_RETRIES == 2
MAX_VERIFICATION_TIME == 12000
MAX_BLOCKS_TO_SCAN == 100000
\* checkActivityFast: batchSize, the sample radius and the final sweep radius
BATCH_SIZE == 3000
SAMPLE_RADIUS == 2000
MIDDLE_RADIUS == 5000
\* hasInteracted scans the last LOOKBACK blocks
LOOKBACK == 100000
\* AVERAGE_BLOCK_TIME = 2.5 seconds = BLOCK_TIME_NUM / BLOCK_TIME_DEN
BLOCK_TIME_NUM == 5
BLOCK_TIME_DEN == 2

(***************************************************************************)
(* Bounds of the model                                                     *)
(***************************************************************************)
\* number of clock advances in one behaviour
MaxTicks == 2
\* number of verification calls started in one behaviour
MaxCalls == 3
\* number of verification calls in flight at the same time
MaxRunning == 2
\* number of administrative operations (reload, clear) in one behaviour
MaxAdmin == 2

\* the n-th call of a behaviour runs as task n
Tasks == 1..MaxCalls

NoDate == -1
NoBlock == -1
NoTimer == -1

Max(a, b) == IF a >= b THEN a ELSE b
Min(a, b) == IF a <= b THEN a ELSE b

(***************************************************************************)
(* Inputs.  An absent (undefined) optional argument is the empty string,   *)
(* which JavaScript treats as falsy exactly like undefined.                *)
(***************************************************************************)
\* String.prototype.toLowerCase on the addresses of the model
toLowerCase(a) ==
  CASE a = "0xAA" -> "0xaa"
    [] a = "0xBb" -> "0xbb"
    [] a = "0xMM" -> "0xmm"
    [] OTHER -> a

\* an address test that lets every string through
isValidAddressAny(a) == TRUE

\* VerificationController.isValidAddress: /^0x[a-fA-F0-9]{40}$/ on the model's
\* short addresses (hex digits after 0x)
isValidAddress(a) == a \in {"0xaa", "0xAA", "0xbb", "0xBb"}

\* new Date(string).getTime(), in ms; NoDate stands for NaN (Invalid Date)
DateParse(s) ==
  CASE s = "1970-01-01" -> 0
    [] s = "1970-01-01T01:23:20Z" -> 5000000
    [] s = "1970-01-01T03:28:20Z" -> 12500000
    [] s = "1970-01-01T04:10:00Z" -> 15000000
    [] s = "1970-01-02T00:00:00Z" -> 86400000
    [] OTHER -> NoDate

\* endDateTime.setHours(23, 59, 59, 999) for a date whose day starts at dayMs
EndOfDay(dayMs) == dayMs + 86399999

\* a call of a public method of the service, and a GET request of a route.
\* startDate / endDate are the Date arguments (ms); qStart / qEnd are the
\* startDate / endDate query strings of a request
HasInteracted(a, c, k) ==
  [via |-> "service", fn |-> "hasInteracted", address |-> a, contractId |-> c,
   campaignId |-> k, startDate |-> NoDate, endDate |-> NoDate, qStart |-> "", qEnd |-> ""]

HasInteractedInTimeRange(a, s, e, c, k) ==
  [via |-> "service", fn |-> "hasInteractedInTimeRange", address |-> a, contractId |-> c,
   campaignId |-> k, startDate |-> s, endDate |-> e, qStart |-> "", qEnd |-> ""]

GetVerify(a, c, k) ==
  [via |-> "verify", fn |-> "hasInteracted", address |-> a, contractId |-> c,
   campaignId |-> k, startDate |-> NoDate, endDate |-> NoDate, qStart |-> "", qEnd |-> ""]

GetVerifyInRange(a, c, k, qs, qe) ==
  [via |-> "range", fn |-> "hasInteractedInTimeRange", address |-> a, contractId |-> c,
   campaignId |-> k, startDate |-> NoDate, endDate |-> NoDate, qStart |-> qs, qEnd |-> qe]

(***************************************************************************)
(* ConfigLoader: the configuration file, rawConfig and config              *)
(***************************************************************************)
\* what the contracts.json file may hold when a reload reads it: two valid
\* configurations, a file that fails schema validation, and a valid file
\* whose rpcUrlRef names an environment variable that is not set
FileContents == {"A", "B", "bad", "noenv"}

\* processConfig's result for a valid file
Contracts(cfg) ==
  IF cfg = "A"
  THEN [c1 |-> [address |-> "X",
                campaigns |-> [k1 |-> [startDate |-> "1970-01-01T01:23:20Z",
                                       endDate |-> "1970-01-01T03:28:20Z"]]],
        c2 |-> [address |-> "Z",
                campaigns |-> [k1 |-> [startDate |-> "1970-01-01T03:28:20Z",
                                       endDate |-> "1970-01-01T04:10:00Z"]]]]
  ELSE [c1 |-> [address |-> "Y",
                campaigns |-> [k1 |-> [startDate |-> "1970-01-01T03:28:20Z",
                                       endDate |-> "1970-01-01T04:10:00Z"]]],
        c2 |-> [address |-> "Z",
                campaigns |-> [k1 |-> [startDate |-> "1970-01-01T03:28:20Z",
                                       endDate |-> "1970-01-01T04:10:00Z"]]]]

\* getContractConfig throws unless this holds
ContractKnown(cfg, contractId) == contractId # "" /\ contractId \in DOMAIN Contracts(cfg)

\* getCampaignConfig: "throw" (missing id, unknown contract), "null" (no such
\* campaign) or "ok"
getCampaignConfig(cfg, contractId, campaignId) ==
  IF contractId = "" \/ campaignId = "" \/ ~ContractKnown(cfg, contractId)
  THEN [kind |-> "throw"]
  ELSE IF campaignId \notin DOMAIN Contracts(cfg)[contractId].campaigns
       THEN [kind |-> "null"]
       ELSE [kind |-> "ok",
             startDate |-> Contracts(cfg)[contractId].campaigns[campaignId].startDate,
             endDate |-> Contracts(cfg)[contractId].campaigns[campaignId].endDate]

\* ConfigLoader.reloadConfig reading a file f: loadRawConfig throws on an
\* invalid file before anything is assigned; processConfig throws on a
\* missing environment variable after rawConfig has been assigned
reloadConfigResult(f, raw, cfg) ==
  CASE f = "bad" -> [ok |-> FALSE, rawConfig |-> raw, config |-> cfg]
    [] f = "noenv" -> [ok |-> FALSE, rawConfig |-> f, config |-> cfg]
    [] OTHER -> [ok |-> TRUE, rawConfig |-> f, config |-> f]

(***************************************************************************)
(* The ledger behind the RPC endpoint: one chain, three token contracts    *)
(***************************************************************************)
\* provider.getBlockNumber() and the head block's timestamp (seconds)
HeadBlock == 7000
HeadTimestamp == 17500
\* the same of a chain that has run for longer
LongHeadBlock == 300000
LongHeadTimestamp == 750000

\* provider.getBlock(b).timestamp (seconds): a block every 2.5 seconds
BlockTimestamp(b) == (b * 5) \div 2

\* contract.minter()
Minter(contractAddress) ==
  CASE contractAddress = "Y" -> "0xBb"
    [] OTHER -> "0xMM"

\* blocks in which the account sent a transaction (its nonce grows there)
TxBlocks(a) ==
  CASE a = "0xaa" -> {4000}
    [] a = "0xdd" -> {3000}
    [] OTHER -> {}

\* provider.getTransactionCount(address, block)
TransactionCount(a, block) == Cardinality({b \in TxBlocks(a) : b <= block})

\* blocks holding a Transfer log of the contract with the address as sender
SentLogs(contractAddress, a) ==
  IF contractAddress = "X" /\ a = "0xaa" THEN {4000} ELSE {}

\* blocks holding a Transfer log of the contract with the address as recipient
\* (the log of 0xcc lies on the long chain; no query reaches beyond the head)
ReceivedLogs(contractAddress, a) ==
  CASE contractAddress = "X" /\ a = "0xbb" -> {6500}
    [] contractAddress = "X" /\ a = "0xcc" -> {55000}
    [] contractAddress = "X" /\ a = "0xdd" -> {6000}
    [] OTHER -> {}

\* whether a log query over [from, to] returns a non-empty list
AnyLog(blocks, from, to) == \E b \in blocks : from <= b /\ b <= to

(***************************************************************************)
(* State                                                                   *)
(***************************************************************************)
VARIABLES
  now,        \* the clock, ms
  ticks,      \* clock advances so far
  rawConfig,  \* ConfigLoader.rawConfig
  config,     \* ConfigLoader.config
  providers,  \* BlockchainService.providers: contract id -> provider handle
  contracts,  \* BlockchainService.contracts: contract id -> contract handle
  cache,      \* NodeCache data: key -> [v, t, old]
  queryCount, \* BlockchainService.queryCount
  cacheHits,  \* BlockchainService.cacheHits
  env,        \* the environment of this behaviour: the requests its callers
              \* choose from, the file on disk, how the RPC endpoint behaves
              \* (ledger), and how many calls, calls in flight, administrative
              \* operations and clock advances it makes
  task,       \* the verification tasks
  calls,      \* verification calls started so far
  admin,      \* administrative operations so far
  last        \* the last operation and its outcome

vars == <<now, ticks, rawConfig, config, providers, contracts, cache,
          queryCount, cacheHits, env, task, calls, admin, last>>

(***************************************************************************)
(* NodeCache({stdTTL: CACHE_TTL, checkperiod: 600, useClones: false})      *)
(***************************************************************************)
\* an entry whose expiry time t lies before the clock is expired
Expired(entry, time) == entry.t < time

\* cache.get(key) !== undefined
CacheHas(c, key, time) == key \in DOMAIN c /\ ~Expired(c[key], time)

\* a cache.get that restarts the life of the entry it reads (sliding TTL)
CacheAfterGetSliding(c, key, time) ==
  IF key \notin DOMAIN c THEN c
  ELSE IF c[key].t < time THEN [k \in DOMAIN c \ {key} |-> c[k]]
  ELSE [c EXCEPT ![key].t = time + CACHE_TTL * 1000]

\* the data left by cache.get(key): an expired entry is deleted by the read,
\* a live entry is left as it is
CacheAfterGet(c, key, time) ==
  IF key \in DOMAIN c /\ Expired(c[key], time)
  THEN [k \in DOMAIN c \ {key} |-> c[k]]
  ELSE c

\* cache.set(key, v): the entry expires stdTTL seconds after its insertion;
\* old says that the writing call started before the latest reload
CacheSet(c, key, v, time, old) ==
  [k \in DOMAIN c \cup {key} |->
     IF k = key THEN [v |-> v, t |-> time + CACHE_TTL * 1000, old |-> old] ELSE c[k]]

\* cache.flushAll()
EmptyCache == [k \in {} |-> [v |-> FALSE, t |-> 0, old |-> FALSE]]

\* the periodic check of NodeCache (checkperiod): expired entries are deleted
CacheAfterSweep(c, time) == [k \in {x \in DOMAIN c : ~Expired(c[x], time)} |-> c[k]]

(***************************************************************************)
(* Ledger client pool: providers and contracts                             *)
(***************************************************************************)
\* A handle is the object that new ethers.JsonRpcProvider(..) or
\* new ethers.Contract(..) returns: cfg is the configuration it was built
\* from, serial tells it from the handles built for the same contract id
\* before it (1 for the first since the map was last cleared)
NoHandles == [k \in {} |-> [cfg |-> "A", serial |-> 1]]

NewHandle(handles, cfg, contractId) ==
  [cfg |-> cfg,
   serial |-> IF contractId \in DOMAIN handles THEN handles[contractId].serial + 1 ELSE 1]

\* Map.set(contractId, handle)
MapSet(handles, contractId, handle) ==
  [k \in DOMAIN handles \cup {contractId} |-> IF k = contractId THEN handle ELSE handles[k]]

\* initializeContract(contractId): ok = FALSE when it throws
initializeContract(pv, ct, cfg, contractId) ==
  IF contractId = "" THEN [ok |-> FALSE, providers |-> pv, contracts |-> ct]
  ELSE IF contractId \in DOMAIN ct THEN [ok |-> TRUE, providers |-> pv, contracts |-> ct]
  ELSE IF ~ContractKnown(cfg, contractId)
       THEN [ok |-> FALSE, providers |-> pv, contracts |-> ct]
       ELSE [ok |-> TRUE,
             providers |-> MapSet(pv, contractId, NewHandle(pv, cfg, contractId)),
             contracts |-> MapSet(ct, contractId, NewHandle(ct, cfg, contractId))]

\* a getProvider that builds the handles anew on every call
getProviderFresh(pv, ct, cfg, contractId) ==
  IF contractId = "" \/ ~ContractKnown(cfg, contractId)
  THEN [ok |-> FALSE, providers |-> pv, contracts |-> ct]
  ELSE [ok |-> TRUE,
        providers |-> MapSet(pv, contractId, NewHandle(pv, cfg, contractId)),
        contracts |-> MapSet(ct, contractId, NewHandle(ct, cfg, contractId))]

\* getProvider(contractId)
getProvider(pv, ct, cfg, contractId) ==
  IF contractId = "" THEN [ok |-> FALSE, providers |-> pv, contracts |-> ct]
  ELSE IF contractId \notin DOMAIN pv
       THEN initializeContract(pv, ct, cfg, contractId)
       ELSE [ok |-> TRUE, providers |-> pv, contracts |-> ct]

\* getContract(contractId)
getContract(pv, ct, cfg, contractId) ==
  IF contractId = "" THEN [ok |-> FALSE, providers |-> pv, contracts |-> ct]
  ELSE IF contractId \notin DOMAIN ct
       THEN initializeContract(pv, ct, cfg, contractId)
       ELSE [ok |-> TRUE, providers |-> pv, contracts |-> ct]

\* if (!this.contracts.has(contractId)) this.initializeContract(contractId)
ensureInitialized(pv, ct, cfg, contractId) ==
  IF contractId \in DOMAIN ct
  THEN [ok |-> TRUE, providers |-> pv, contracts |-> ct]
  ELSE initializeContract(pv, ct, cfg, contractId)

\* the address the contract handle of contractId is bound to
HandleAddress(ct, contractId) == Contracts(ct[contractId].cfg)[contractId].address

(***************************************************************************)
(* getApproximateBlockForDate, after both reads of the head have resolved  *)
(***************************************************************************)
\* Math.floor(targetDate.getTime() / 1000)
TargetTimestamp(dateMs) == dateMs \div 1000

\* an estimate without Math.max(1, ...)
ApproximateBlockUnfloored(currentBlock, currentTimestamp, dateMs) ==
  IF TargetTimestamp(dateMs) >= currentTimestamp
  THEN currentBlock
  ELSE currentBlock
         - (((currentTimestamp - TargetTimestamp(dateMs)) * BLOCK_TIME_DEN)
              \div BLOCK_TIME_NUM)

\* an estimate that counts the blocks forward from the head
ApproximateBlockAhead(currentBlock, currentTimestamp, dateMs) ==
  IF TargetTimestamp(dateMs) >= currentTimestamp
  THEN currentBlock
  ELSE Max(1, currentBlock
                + (((currentTimestamp - TargetTimestamp(dateMs)) * BLOCK_TIME_DEN)
                     \div BLOCK_TIME_NUM))

ApproximateBlock(currentBlock, currentTimestamp, dateMs) ==
  IF TargetTimestamp(dateMs) >= currentTimestamp
  THEN currentBlock
  ELSE Max(1, currentBlock
                - (((currentTimestamp - TargetTimestamp(dateMs)) * BLOCK_TIME_DEN)
                     \div BLOCK_TIME_NUM))

(***************************************************************************)
(* Cache keys                                                              *)
(***************************************************************************)
\* a key of hasInteracted that leaves the contract id out
KeyWithoutContract(contractId, campaignId, normalizedAddress) ==
  (IF campaignId = "" THEN "all" ELSE campaignId) \o "_" \o normalizedAddress

\* hasInteracted: `${contractId}_${campaignId || "all"}_${normalizedAddress}`
KeyAll(contractId, campaignId, normalizedAddress) ==
  contractId \o "_" \o (IF campaignId = "" THEN "all" ELSE campaignId)
    \o "_" \o normalizedAddress

\* hasInteractedInTimeRange: `${contractId}_${campaignId || "custom"}_
\* ${normalizedAddress}_${startDate.getTime()}_${endDate.getTime()}`
KeyRange(contractId, campaignId, normalizedAddress, startDate, endDate) ==
  contractId \o "_" \o (IF campaignId = "" THEN "custom" ELSE campaignId)
    \o "_" \o normalizedAddress \o "_" \o ToString(startDate) \o "_" \o ToString(endDate)

(***************************************************************************)
(* Tasks                                                                   *)
(***************************************************************************)
IdleTask ==
  [pc |-> "idle",          \* the await the task is suspended at
   req |-> "",             \* the call or request the task serves
   via |-> "",             \* "service", or the controller branch that called the engine
   fn |-> "",              \* the public method of the engine that was invoked
   address |-> "", contractId |-> "", campaignId |-> "",
   startDate |-> NoDate, endDate |-> NoDate,   \* arguments of that method
   began |-> 0,            \* const start = performance.now()
   ended |-> 0,            \* the time at which the call returned or threw
   addr |-> "",            \* normalizedAddress
   cacheKey |-> "",        \* cacheKey of the method that is running
   lookups |-> {},         \* keys read with cache.get
   writes |-> {},          \* keys written with cache.set
   hit |-> FALSE,          \* the verdict was read from the cache
   winStart |-> NoDate, winEnd |-> NoDate,     \* the window after campaign override
   startBlock |-> NoBlock, endBlock |-> NoBlock, currentBlock |-> NoBlock,
   target |-> "",          \* contract address the pending contract call was sent to
   contractAddress |-> "", \* contractConfig.address of the direct check
   racing |-> FALSE, deadline |-> NoTimer, fired |-> FALSE,
   rangeStart |-> 0, scanPhase |-> "", scanPos |-> 0,
   returned |-> FALSE, result |-> FALSE, thrown |-> "",
   queried |-> FALSE,      \* the call has issued a ledger query
   old |-> FALSE,          \* a reload has completed since the call started
   flushed |-> FALSE,      \* the cache has been flushed since the call returned
   recent |-> {},          \* the calls that had returned when this one started,
                           \* at most CACHE_TTL seconds earlier and with no flush since
   stale |-> FALSE,        \* the verdict was read from an entry written by a
                           \* call that started before the latest reload
   late |-> FALSE,         \* the clock advanced while the call was pending
   reads |-> 0,            \* getTransactionCount reads of a direct check that resolved
   retryCount |-> 0,       \* retryCount of the queryWithRetry invocation that runs
   attempts |-> 0,         \* invocations of queryWithRetry made for the query
   ends |-> <<>>,          \* how each of them ended: "ok", "err", "timeout", "nocontract"
   timerSet |-> 0,         \* the time at which the pending setTimeout was called
   logs |-> {},            \* the blocks of the logs queryWithRetry returned
   low |-> 0, high |-> 0, mid |-> 0,          \* locals of getAccurateBlockForDate
   bestBlock |-> NoBlock, bestDiff |-> 0, iterations |-> 0,
   foundBlock |-> NoBlock, \* the block getAccurateBlockForDate returned
   sampled |-> {},         \* the blocks its loop asked for that resolved
   failures |-> 0,         \* the blocks its loop asked for that did not
   status |-> 0, body |-> 0]   \* the HTTP response, status 0 while there is none

Running(tk) == tk.pc \notin {"idle", "done"}

InitWith(sc) ==
  /\ now = 0
  /\ ticks = 0
  /\ rawConfig = "A"
  /\ config = "A"
  /\ providers = NoHandles
  /\ contracts = NoHandles
  /\ cache = EmptyCache
  /\ queryCount = 0
  /\ cacheHits = 0
  /\ env = sc
  /\ task = [t \in Tasks |-> IdleTask]
  /\ calls = 0
  /\ admin = 0
  /\ last = "init"

(***************************************************************************)
(* How a call ends.  A bundle s holds the task t and the service state     *)
(* (providers pv, contracts ct, cache c, queryCount qc, cacheHits ch)      *)
(* while one step is computed.                                             *)
(***************************************************************************)
\* the locals of a pipeline that has ended are gone: only the call's
\* arguments and its outcome are left in the task
Finished(tk) ==
  [tk EXCEPT !.pc = "done", !.winStart = NoDate, !.winEnd = NoDate,
             !.startBlock = NoBlock, !.endBlock = NoBlock,
             !.currentBlock = NoBlock, !.target = "",
             !.contractAddress = "", !.racing = FALSE,
             !.deadline = NoTimer, !.fired = FALSE, !.rangeStart = 0, !.began = 0,
             !.scanPhase = "", !.scanPos = 0]

\* the method returns v (and the controller answers 200 with result 1 or 0)
Returned(tk, v) ==
  [tk EXCEPT !.returned = TRUE, !.result = v, !.ended = now,
             !.status = IF tk.via = "service" THEN 0 ELSE 200,
             !.body = IF v THEN 1 ELSE 0]

\* the method rejects; the catch of the controller answers 500, the catch of
\* the campaign branch of verifyInteractionInTimeRange 400, always with result 0
Thrown(tk, kind) ==
  [Finished(tk) EXCEPT !.returned = TRUE, !.thrown = kind, !.ended = now,
                       !.status = CASE tk.via = "service" -> 0
                                    [] tk.via = "range_campaign" -> 400
                                    [] OTHER -> 500,
                       !.body = 0]

\* a catch block that caches false before it throws
ThrowCached(s, kind) ==
  [s EXCEPT !.t = [Thrown(s.t, kind) EXCEPT !.writes = @ \cup {s.t.cacheKey}],
            !.c = CacheSet(s.c, s.t.cacheKey, FALSE, now, s.t.old)]

Throw(s, kind) == [s EXCEPT !.t = Thrown(s.t, kind)]

\* this.cache.set(cacheKey, v); return v
SetAndReturn(s, v) ==
  [s EXCEPT !.t = [Returned(s.t, v) EXCEPT !.writes = @ \cup {s.t.cacheKey}],
            !.c = CacheSet(s.c, s.t.cacheKey, v, now, s.t.old)]

\* the pipeline has nothing left to run
Stop(s) == [s EXCEPT !.t = Finished(s.t)]

(***************************************************************************)
(* checkActivityFast: the log scans after the direct check                 *)
(***************************************************************************)
\* the 21 evenly spaced points and the 10 points of the middle half
SamplingPoint(startBlock, total, i) ==
  IF i <= 20
  THEN startBlock + (i * total) \div 20
  ELSE LET midRangeStart == startBlock + total \div 4
           midRangeEnd == startBlock + (total * 3) \div 4
       IN midRangeStart + ((i - 21) * (midRangeEnd - midRangeStart)) \div 10

\* index of the last sampling point
LastSample == 30

\* scans around their points and from their starts, not cut to the window
ScanRangeUnclamped(tk) ==
  LET total == tk.endBlock - tk.startBlock IN
  CASE tk.scanPhase = "recent" ->
         [from |-> tk.currentBlock - RECENT_BLOCKS, to |-> tk.endBlock]
    [] tk.scanPhase = "sample" ->
         [from |-> SamplingPoint(tk.startBlock, total, tk.scanPos) - SAMPLE_RADIUS,
          to |-> SamplingPoint(tk.startBlock, total, tk.scanPos) + SAMPLE_RADIUS]
    [] tk.scanPhase = "final" ->
         [from |-> (tk.startBlock + total \div 2) - MIDDLE_RADIUS,
          to |-> (tk.startBlock + total \div 2) + MIDDLE_RADIUS]
    [] OTHER ->
         [from |-> tk.scanPos, to |-> tk.scanPos + BATCH_SIZE]

\* the block range [from, to] of the scan the task is suspended at
ScanRange(tk) ==
  LET total == tk.endBlock - tk.startBlock IN
  CASE tk.scanPhase = "recent" ->
         [from |-> Max(tk.currentBlock - RECENT_BLOCKS, tk.startBlock), to |-> tk.endBlock]
    [] tk.scanPhase = "sample" ->
         [from |-> Max(tk.startBlock, SamplingPoint(tk.startBlock, total, tk.scanPos) - SAMPLE_RADIUS),
          to |-> Min(tk.endBlock, SamplingPoint(tk.startBlock, total, tk.scanPos) + SAMPLE_RADIUS)]
    [] tk.scanPhase = "final" ->
         [from |-> Max(tk.startBlock, (tk.startBlock + total \div 2) - MIDDLE_RADIUS),
          to |-> Min(tk.endBlock, (tk.startBlock + total \div 2) + MIDDLE_RADIUS)]
    [] OTHER ->
         [from |-> tk.scanPos, to |-> Min(tk.scanPos + BATCH_SIZE, tk.endBlock)]

\* a checkActivityFast whose late result is cached and returned all the same
CafDoneLate(s, v) == Stop(SetAndReturn(s, v))

\* checkActivityFast returns v, which decides the race of hasInteracted /
\* hasInteractedInTimeRange: the verdict is cached and returned.  When the
\* deadline has already decided the race the value is dropped.
CafDone(s, v) ==
  IF s.t.returned THEN Stop(s) ELSE Stop(SetAndReturn(s, v))

\* both queryWithRetry calls of a scan are issued: each calls getContract
\* (inside its try) and queries the handle it gets
IssueScan(s, phase, pos) ==
  LET r == getContract(s.pv, s.ct, config, s.t.contractId) IN
  [s EXCEPT !.pv = r.providers, !.ct = r.contracts,
            !.t = [s.t EXCEPT !.pc = "scan", !.scanPhase = phase, !.scanPos = pos,
                              !.queried = TRUE,
                              !.target = IF r.ok THEN HandleAddress(r.contracts, s.t.contractId)
                                         ELSE ""]]

\* step 2 of checkActivityFast: sampling for a large range, batches otherwise
AfterRecent(s) ==
  IF s.t.endBlock - s.t.startBlock > MAX_BLOCKS_TO_SCAN
  THEN IssueScan(s, "sample", 0)
  ELSE IF s.t.startBlock < s.t.endBlock
       THEN IssueScan(s, "batch", s.t.startBlock)
       ELSE CafDone(s, FALSE)

\* step 1 of checkActivityFast: the recent blocks, when the window reaches them
StartScan(s) ==
  IF Max(s.t.currentBlock - RECENT_BLOCKS, s.t.startBlock) <= s.t.endBlock
  THEN IssueScan(s, "recent", 0)
  ELSE AfterRecent(s)

\* a scanner that takes a scan without logs for the end of the search
ScanMissStops(s) == CafDone(s, FALSE)

\* the scan the task is suspended at found nothing
ScanMiss(s) ==
  LET tk == s.t IN
  CASE tk.scanPhase = "recent" -> AfterRecent(s)
    [] tk.scanPhase = "sample" ->
         \* inside the loop rangeStart is the loop's own const, a block number
         IF now - ScanRange(tk).from > MAX_VERIFICATION_TIME THEN CafDone(s, FALSE)
         ELSE IF tk.scanPos < LastSample THEN IssueScan(s, "sample", tk.scanPos + 1)
         ELSE IssueScan(s, "final", 0)
    [] tk.scanPhase = "final" -> CafDone(s, FALSE)
    [] OTHER ->
         IF now - tk.rangeStart > MAX_VERIFICATION_TIME THEN CafDone(s, FALSE)
         ELSE IF tk.scanPos + BATCH_SIZE < tk.endBlock
              THEN IssueScan(s, "batch", tk.scanPos + BATCH_SIZE)
              ELSE CafDone(s, FALSE)

(***************************************************************************)
(* checkDirectTransactionInteractions                                      *)
(***************************************************************************)
\* the three sub-ranges, earliest third first
DirectRangeAscending(startBlock, endBlock, r) ==
  LET thirdSize == (endBlock - startBlock) \div 3 IN
  CASE r = 0 -> [from |-> startBlock, to |-> startBlock + thirdSize]
    [] r = 1 -> [from |-> startBlock + thirdSize, to |-> endBlock - thirdSize]
    [] OTHER -> [from |-> endBlock - thirdSize, to |-> endBlock]

\* the three sub-ranges, most recent third first
DirectRange(startBlock, endBlock, r) ==
  LET thirdSize == (endBlock - startBlock) \div 3 IN
  CASE r = 0 -> [from |-> endBlock - thirdSize, to |-> endBlock]
    [] r = 1 -> [from |-> startBlock + thirdSize, to |-> endBlock - thirdSize]
    [] OTHER -> [from |-> startBlock, to |-> startBlock + thirdSize]

\* whether a getLogs call of the loop returns a non-empty list
DirectLogsFound(contractAddress, a, startBlock, endBlock) ==
  \E r \in 0..2 :
    LET range == DirectRange(startBlock, endBlock, r) IN
    \/ AnyLog(SentLogs(contractAddress, a), range.from, range.to)
    \/ AnyLog(ReceivedLogs(contractAddress, a), range.from, range.to)

\* a direct check whose catch of a failed getTransactionCount answers true
checkDirectFailOpen(contractAddress, a, startBlock, endBlock, txOk, logsOk) ==
  IF ~txOk THEN TRUE
  ELSE TransactionCount(a, endBlock) > TransactionCount(a, startBlock)

\* the value the function returns once its provider calls have come back:
\* txOk says that both getTransactionCount reads resolved, logsOk that the
\* getLogs calls resolved.  With a count increase it returns true at the
\* first non-empty log result, and true after the loop as well.
checkDirectTransactionInteractions(contractAddress, a, startBlock, endBlock, txOk, logsOk) ==
  IF ~txOk THEN FALSE
  ELSE IF TransactionCount(a, endBlock) > TransactionCount(a, startBlock)
       THEN IF logsOk /\ DirectLogsFound(contractAddress, a, startBlock, endBlock)
            THEN TRUE
            ELSE TRUE
       ELSE FALSE

\* checkActivityFast starts: rangeStart is read, the handles are fetched and
\* getBlockNumber is issued; a throw of getProvider / getContract is caught by
\* the function's own catch, which returns false
StartCaf(s, sb, eb) ==
  LET r1 == getProvider(s.pv, s.ct, config, s.t.contractId)
      r2 == getContract(r1.providers, r1.contracts, config, s.t.contractId)
      s1 == [s EXCEPT !.t = [s.t EXCEPT !.rangeStart = now, !.startBlock = sb,
                                        !.endBlock = eb]]
  IN IF r1.ok /\ r2.ok
     THEN [s1 EXCEPT !.pv = r2.providers, !.ct = r2.contracts,
                     !.t = [s1.t EXCEPT !.pc = "caf_head", !.queried = TRUE]]
     ELSE CafDone(s1, FALSE)

\* the Promise.race against the deadline timer begins.  A timer that has
\* already fired wins against a checkActivityFast that is still pending.
StartRace(s, sb, eb) ==
  LET s1 == StartCaf([s EXCEPT !.t.racing = TRUE], sb, eb) IN
  IF s1.t.pc # "done" /\ s1.t.fired THEN SetAndReturn(s1, FALSE) ELSE s1

\* a caller of the direct check that goes on with the scans whatever it returned
DirectDoneThenScan(s, v) ==
  IF s.t.pc = "caf_direct"
  THEN StartScan(s)
  ELSE StartRace([s EXCEPT !.t.deadline = now + MAX_VERIFICATION_TIME],
                 s.t.startBlock, s.t.endBlock)

\* the direct check has returned v to its caller: checkActivityFast goes on
\* with the scans, hasInteractedInTimeRange arms the deadline and starts the race
DirectDone(s, v) ==
  IF s.t.pc = "caf_direct"
  THEN IF v THEN CafDone(s, TRUE) ELSE StartScan(s)
  ELSE IF v THEN Stop(SetAndReturn(s, TRUE))
       ELSE StartRace([s EXCEPT !.t.deadline = now + MAX_VERIFICATION_TIME],
                      s.t.startBlock, s.t.endBlock)

\* checkDirectTransactionInteractions starts: a throw of getProvider or of
\* getContractConfig is caught by the outer catch, which returns false
StartDirect(s, pc) ==
  LET r == getProvider(s.pv, s.ct, config, s.t.contractId)
      s1 == [s EXCEPT !.t.pc = pc]
  IN IF r.ok /\ ContractKnown(config, s.t.contractId)
     THEN [s1 EXCEPT !.pv = r.providers, !.ct = r.contracts,
                     !.t = [s1.t EXCEPT !.queried = TRUE,
                                        !.contractAddress =
                                           Contracts(config)[s.t.contractId].address]]
     ELSE DirectDone(s1, FALSE)

(***************************************************************************)
(* checkMinterRole and getApproximateBlockForDate                          *)
(***************************************************************************)
\* getApproximateBlockForDate starts: getProvider may throw, getBlockNumber
\* is issued
StartApprox(s, pc) ==
  LET r == getProvider(s.pv, s.ct, config, s.t.contractId) IN
  IF r.ok
  THEN [s EXCEPT !.pv = r.providers, !.ct = r.contracts,
                 !.t = [s.t EXCEPT !.pc = pc, !.queried = TRUE]]
  ELSE Throw(s, "contract")

\* checkMinterRole starts: getContract and contract.minter() are inside its
\* try; when getContract throws the catch returns false at once
\* (next is what the caller does with a false)
StartMinter(s, pc, next) ==
  LET r == getContract(s.pv, s.ct, config, s.t.contractId) IN
  IF r.ok
  THEN [s EXCEPT !.pv = r.providers, !.ct = r.contracts,
                 !.t = [s.t EXCEPT !.pc = pc, !.queried = TRUE,
                                   !.target = HandleAddress(r.contracts, s.t.contractId)]]
  ELSE next

\* a minter comparison that does not lower-case its operands
IsMinterCaseSensitive(contractAddress, a) == Minter(contractAddress) = a

\* currentMinter.toLowerCase() === address.toLowerCase()
IsMinter(contractAddress, a) == toLowerCase(Minter(contractAddress)) = toLowerCase(a)

(***************************************************************************)
(* hasInteractedInTimeRange and hasInteracted up to their first await      *)
(***************************************************************************)
\* a cache read that answers true whenever the key holds an entry
ReturnCachedPresent(s, key) ==
  [s EXCEPT !.ch = @ + 1,
            !.t = [Finished(Returned(s.t, TRUE)) EXCEPT !.hit = TRUE,
                                                        !.stale = s.c[key].old]]

\* return cached as boolean
ReturnCached(s, key) ==
  [s EXCEPT !.ch = @ + 1,
            !.t = [Finished(Returned(s.t, s.c[key].v)) EXCEPT !.hit = TRUE,
                                                              !.stale = s.c[key].old]]

\* a validation that only looks at the address
MissingAddressOnly(address, contractId) == address = ""

\* if (!address || !contractId) throw new Error("... are required"); the
\* dates that hasInteractedInTimeRange tests with them are Date objects in
\* every caller, which are never falsy
MissingInput(address, contractId) == address = "" \/ contractId = ""

\* a campaign check that leaves the dates of the caller in place
KeepExplicitDates(campaignId, campaignConfig, startDate, endDate) ==
  [startDate |-> startDate, endDate |-> endDate]

\* if (campaignId) { startDate = new Date(campaignConfig.startDate);
\* endDate = new Date(campaignConfig.endDate) }
OverrideDates(campaignId, campaignConfig, startDate, endDate) ==
  IF campaignId # "" /\ campaignConfig.kind = "ok"
  THEN [startDate |-> DateParse(campaignConfig.startDate),
        endDate |-> DateParse(campaignConfig.endDate)]
  ELSE [startDate |-> startDate, endDate |-> endDate]

hasInteractedInTimeRange(s, address, startDate, endDate, contractId, campaignId) ==
  IF MissingInput(address, contractId)
  THEN Throw(s, "input")
  ELSE
    LET normalizedAddress == toLowerCase(address)
        cacheKey == KeyRange(contractId, campaignId, normalizedAddress, startDate, endDate)
        s1 == [s EXCEPT !.qc = @ + 1,
                        !.c = CacheAfterGet(s.c, cacheKey, now),
                        !.t = [s.t EXCEPT !.addr = normalizedAddress, !.cacheKey = cacheKey,
                                          !.lookups = @ \cup {cacheKey}]]
        campaignConfig == getCampaignConfig(config, contractId, campaignId)
        window == OverrideDates(campaignId, campaignConfig, startDate, endDate)
        s2 == [s1 EXCEPT !.t = [s1.t EXCEPT !.winStart = window.startDate,
                                            !.winEnd = window.endDate]]
        r == ensureInitialized(s.pv, s.ct, config, contractId)
        s3 == [s2 EXCEPT !.pv = r.providers, !.ct = r.contracts]
    IN IF CacheHas(s.c, cacheKey, now) THEN ReturnCached(s1, cacheKey)
       ELSE IF campaignId # "" /\ campaignConfig.kind = "throw" THEN Throw(s2, "contract")
       ELSE IF campaignId # "" /\ campaignConfig.kind = "null" THEN Throw(s2, "campaign")
       ELSE IF ~r.ok THEN Throw(s2, "contract")
       ELSE StartMinter(s3, "tr_minter", StartApprox(s3, "tr_start"))

hasInteracted(s, address, contractId, campaignId) ==
  IF MissingInput(address, contractId)
  THEN Throw(s, "input")
  ELSE
    LET normalizedAddress == toLowerCase(address)
        cacheKey == KeyAll(contractId, campaignId, normalizedAddress)
        s1 == [s EXCEPT !.qc = @ + 1,
                        !.c = CacheAfterGet(s.c, cacheKey, now),
                        !.t = [s.t EXCEPT !.addr = normalizedAddress, !.cacheKey = cacheKey,
                                          !.lookups = @ \cup {cacheKey}]]
        s2 == s1
        campaignConfig == getCampaignConfig(config, contractId, campaignId)
        r1 == ensureInitialized(s.pv, s.ct, config, contractId)
        r2 == getProvider(r1.providers, r1.contracts, config, contractId)
        s3 == [s2 EXCEPT !.t.deadline = now + MAX_VERIFICATION_TIME]
    IN IF CacheHas(s.c, cacheKey, now) THEN ReturnCached(s1, cacheKey)
       ELSE IF campaignId # ""
            THEN IF campaignConfig.kind = "throw" THEN Throw(s2, "contract")
                 ELSE IF campaignConfig.kind = "null" THEN Throw(s2, "campaign")
                 ELSE hasInteractedInTimeRange(s2, address,
                                               DateParse(campaignConfig.startDate),
                                               DateParse(campaignConfig.endDate),
                                               contractId, "")
            ELSE IF ~r1.ok \/ ~r2.ok THEN Throw(s3, "contract")
                 ELSE [s3 EXCEPT !.pv = r2.providers, !.ct = r2.contracts,
                                 !.t = [s3.t EXCEPT !.pc = "hi_head", !.queried = TRUE]]

(***************************************************************************)
(* VerificationController: GET /verify/:address and                        *)
(* GET /verify-in-range/:address                                           *)
(***************************************************************************)
\* res.status(status).json({result: body}) without a call of the engine
Respond(s, status, body) ==
  [s EXCEPT !.t = [Finished(s.t) EXCEPT !.status = status, !.body = body, !.ended = now]]

verifyInteraction(s, address, contract, campaign) ==
  IF address = "" \/ contract = "" \/ ~isValidAddress(address)
  THEN Respond(s, 400, 0)
  ELSE LET s1 == [s EXCEPT !.t = [s.t EXCEPT !.via = "verify", !.fn = "hasInteracted",
                                             !.address = toLowerCase(address),
                                             !.contractId = contract,
                                             !.campaignId = campaign]]
       IN hasInteracted(s1, toLowerCase(address), contract, campaign)

verifyInteractionInTimeRange(s, address, contract, campaign, startDate, endDate) ==
  IF address = "" \/ contract = "" \/ ~isValidAddress(address)
  THEN Respond(s, 400, 0)
  ELSE IF campaign # ""
  THEN LET campaignConfig == getCampaignConfig(config, contract, campaign)
           s1 == [s EXCEPT !.t = [s.t EXCEPT
                     !.via = "range_campaign", !.fn = "hasInteractedInTimeRange",
                     !.address = toLowerCase(address), !.contractId = contract,
                     !.campaignId = "",
                     !.startDate = DateParse(campaignConfig.startDate),
                     !.endDate = DateParse(campaignConfig.endDate)]]
       IN IF campaignConfig.kind # "ok"
          THEN Respond(s, 400, 0)
          ELSE hasInteractedInTimeRange(s1, toLowerCase(address),
                                        DateParse(campaignConfig.startDate),
                                        DateParse(campaignConfig.endDate), contract, "")
  ELSE LET startDateTime == DateParse(startDate)
           endDateTime == IF Len(endDate) <= 10 /\ DateParse(endDate) # NoDate
                          THEN EndOfDay(DateParse(endDate))
                          ELSE DateParse(endDate)
           s1 == [s EXCEPT !.t = [s.t EXCEPT
                     !.via = "range_dates", !.fn = "hasInteractedInTimeRange",
                     !.address = toLowerCase(address), !.contractId = contract,
                     !.campaignId = "",
                     !.startDate = startDateTime, !.endDate = endDateTime]]
       IN IF startDate = "" \/ endDate = "" THEN Respond(s, 400, 0)
          ELSE IF startDateTime = NoDate \/ endDateTime = NoDate THEN Respond(s, 400, 0)
          ELSE IF startDateTime > endDateTime THEN Respond(s, 400, 0)
          ELSE hasInteractedInTimeRange(s1, toLowerCase(address), startDateTime,
                                        endDateTime, contract, "")

(***************************************************************************)
(* Actions                                                                 *)
(***************************************************************************)
Bundle(t) ==
  [t |-> task[t], pv |-> providers, ct |-> contracts, c |-> cache,
   qc |-> queryCount, ch |-> cacheHits]

Apply(t, s) ==
  /\ task' = [task EXCEPT ![t] = s.t]
  /\ providers' = s.pv
  /\ contracts' = s.ct
  /\ cache' = s.c
  /\ queryCount' = s.qc
  /\ cacheHits' = s.ch
  /\ last' = "other"
  /\ UNCHANGED <<now, ticks, rawConfig, config, env, admin>>

NewTask(req) ==
  [IdleTask EXCEPT !.req = req, !.via = req.via,
                   !.fn = IF req.via = "service" THEN req.fn ELSE "",
                   !.address = req.address, !.contractId = req.contractId,
                   !.campaignId = req.campaignId,
                   !.startDate = req.startDate, !.endDate = req.endDate,
                   !.began = now,
                   !.recent = {u \in Tasks : /\ task[u].returned
                                              /\ ~task[u].flushed
                                              /\ now - task[u].ended <= CACHE_TTL * 1000}]

\* the n-th call of the behaviour starts
CanStart(t) ==
  /\ t = calls + 1
  /\ calls < env.calls
  /\ Cardinality({u \in Tasks : Running(task[u])}) < env.running

\* a caller invokes BlockchainService.hasInteracted
CallHasInteracted(t) ==
  /\ CanStart(t)
  /\ \E req \in env.requests :
       /\ req.via = "service" /\ req.fn = "hasInteracted"
       /\ Apply(t, hasInteracted([Bundle(t) EXCEPT !.t = NewTask(req)],
                                 req.address, req.contractId, req.campaignId))
  /\ calls' = calls + 1

\* a caller invokes BlockchainService.hasInteractedInTimeRange
CallHasInteractedInTimeRange(t) ==
  /\ CanStart(t)
  /\ \E req \in env.requests :
       /\ req.via = "service" /\ req.fn = "hasInteractedInTimeRange"
       /\ Apply(t, hasInteractedInTimeRange([Bundle(t) EXCEPT !.t = NewTask(req)],
                                            req.address, req.startDate, req.endDate,
                                            req.contractId, req.campaignId))
  /\ calls' = calls + 1

\* GET /verify/:address?contract=..&campaign=..
GetVerifyRequest(t) ==
  /\ CanStart(t)
  /\ \E req \in env.requests :
       /\ req.via = "verify"
       /\ Apply(t, verifyInteraction([Bundle(t) EXCEPT !.t = NewTask(req)],
                                     req.address, req.contractId, req.campaignId))
  /\ calls' = calls + 1

\* GET /verify-in-range/:address?contract=..&campaign=..&startDate=..&endDate=..
GetVerifyInRangeRequest(t) ==
  /\ CanStart(t)
  /\ \E req \in env.requests :
       /\ req.via = "range"
       /\ Apply(t, verifyInteractionInTimeRange([Bundle(t) EXCEPT !.t = NewTask(req)],
                                                req.address, req.contractId,
                                                req.campaignId, req.qStart, req.qEnd))
  /\ calls' = calls + 1

\* provider.getBlockNumber() and provider.getBlock(currentBlock).timestamp
\* on the chain of this environment
getBlockNumber ==
  CASE env.ledger = "long" -> LongHeadBlock
    [] env.ledger = "live" -> env.head
    [] OTHER -> HeadBlock
getBlockTimestamp ==
  CASE env.ledger = "long" -> LongHeadTimestamp
    [] env.ledger = "live" -> env.headTimestamp
    [] OTHER -> HeadTimestamp

\* what a provider / contract call can come back with: the value, or a
\* rejection; a dead endpoint never answers
Outcomes ==
  CASE env.ledger \in {"ok", "long"} -> {"ok"}
    [] env.ledger = "flaky" -> {"ok", "err"}
    [] OTHER -> {}

\* whether one queryWithRetry returns what the ledger holds (TRUE) or the
\* empty list it returns once its attempts have failed or timed out (FALSE)
QueryOutcomes ==
  CASE env.ledger \in {"ok", "long"} -> {TRUE}
    [] env.ledger = "flaky" -> {TRUE, FALSE}
    [] OTHER -> {FALSE}

\* hasInteracted: await provider.getBlockNumber() resolves or rejects
ResolveBlockNumber(t) ==
  /\ task[t].pc = "hi_head"
  /\ \E o \in Outcomes :
       LET s == [Bundle(t) EXCEPT !.t.currentBlock = IF o = "ok" THEN getBlockNumber ELSE @] IN
       Apply(t, IF o = "err" THEN Throw(s, "ledger")
                ELSE StartMinter(s, "hi_minter",
                                 StartRace(s, s.t.currentBlock - LOOKBACK, s.t.currentBlock)))

\* checkMinterRole: await contract.minter() resolves or rejects (caught: false)
ResolveMinter(t) ==
  /\ task[t].pc \in {"hi_minter", "tr_minter"}
  /\ \E o \in Outcomes :
       LET s == Bundle(t) IN
       Apply(t, IF o = "ok" /\ IsMinter(s.t.target, s.t.addr)
                THEN Stop(SetAndReturn(s, TRUE))
                ELSE IF s.t.pc = "tr_minter" THEN StartApprox(s, "tr_start")
                ELSE StartRace(s, s.t.currentBlock - LOOKBACK, s.t.currentBlock))

\* getApproximateBlockForDate: getBlockNumber and getBlock(currentBlock) have
\* come back; a rejection or a null block makes hasInteractedInTimeRange throw
ResolveApproximateBlock(t) ==
  /\ task[t].pc \in {"tr_start", "tr_end"}
  /\ \E o \in Outcomes \cup (IF env.ledger = "flaky" THEN {"null"} ELSE {}) :
       LET s == Bundle(t)
           block == ApproximateBlock(getBlockNumber, getBlockTimestamp,
                                     IF s.t.pc = "tr_start" THEN s.t.winStart
                                     ELSE s.t.winEnd)
       IN Apply(t, IF o # "ok" THEN Throw(s, "ledger")
                   ELSE IF s.t.pc = "tr_start"
                        THEN StartApprox([s EXCEPT !.t.startBlock = block], "tr_end")
                        ELSE StartDirect([s EXCEPT !.t.endBlock = block], "tr_direct"))

\* checkActivityFast: await provider.getBlockNumber(); the window is clamped
\* and the direct check starts
ResolveCafHead(t) ==
  /\ task[t].pc = "caf_head"
  /\ \E o \in Outcomes :
       LET s == Bundle(t) IN
       Apply(t, IF o = "err" THEN CafDone(s, FALSE)
                ELSE StartDirect([s EXCEPT !.t = [s.t EXCEPT
                                    !.currentBlock = getBlockNumber,
                                    !.startBlock = Max(1, s.t.startBlock),
                                    !.endBlock = Min(getBlockNumber, s.t.endBlock)]],
                                 "caf_direct"))

\* checkDirectTransactionInteractions returns
ResolveDirect(t) ==
  /\ task[t].pc \in {"tr_direct", "caf_direct"}
  /\ \E txOk \in {o = "ok" : o \in Outcomes}, logsOk \in {o = "ok" : o \in Outcomes} :
       LET s == Bundle(t) IN
       Apply(t, DirectDone(s, checkDirectTransactionInteractions(
                                s.t.contractAddress, s.t.addr, s.t.startBlock,
                                s.t.endBlock, txOk, logsOk)))

\* checkActivityFast: the Promise.all of the two queryWithRetry calls of the
\* current scan resolves
ResolveScan(t) ==
  /\ task[t].pc = "scan"
  /\ \E sentOk \in QueryOutcomes, receivedOk \in QueryOutcomes :
       LET s == Bundle(t)
           range == ScanRange(s.t)
           sent == sentOk /\ AnyLog(SentLogs(s.t.target, s.t.addr), range.from, range.to)
           received == receivedOk
                         /\ AnyLog(ReceivedLogs(s.t.target, s.t.addr), range.from, range.to)
       IN Apply(t, IF sent \/ received THEN CafDone(s, TRUE) ELSE ScanMiss(s))

\* the deadline timer of a call fires (resolve(false)): a race that is
\* running is lost and false is cached and returned, while the pipeline of
\* checkActivityFast goes on by itself
VerificationTimeout(t) ==
  /\ task[t].deadline # NoTimer
  /\ ~task[t].fired
  /\ ~task[t].returned
  /\ now >= task[t].deadline
  /\ LET s == [Bundle(t) EXCEPT !.t.fired = TRUE] IN
     Apply(t, IF s.t.racing THEN SetAndReturn(s, FALSE) ELSE s)
  /\ UNCHANGED calls

Resolve(t) ==
  /\ \/ ResolveBlockNumber(t)
     \/ ResolveMinter(t)
     \/ ResolveApproximateBlock(t)
     \/ ResolveCafHead(t)
     \/ ResolveDirect(t)
     \/ ResolveScan(t)
  /\ UNCHANGED calls

(***************************************************************************)
(* Time                                                                    *)
(***************************************************************************)
TickSteps == {MAX_VERIFICATION_TIME, CACHE_TTL * 1000}

\* the clock advances; it does not pass a deadline timer that has not fired.
\* Time is read by the timers and elapsed-time checks of the running calls
\* and by the cache: the short advance is taken while a call runs, the long
\* one while the cache holds an entry.
Tick(d) ==
  /\ ticks < env.ticks
  /\ IF d = MAX_VERIFICATION_TIME THEN \E t \in Tasks : Running(task[t])
     ELSE cache # EmptyCache
  /\ \A t \in Tasks :
       (task[t].deadline # NoTimer /\ ~task[t].fired /\ ~task[t].returned)
         => now + d <= task[t].deadline
  /\ now' = now + d
  /\ ticks' = ticks + 1
  /\ task' = [t \in Tasks |->
                IF Running(task[t]) /\ ~task[t].returned
                THEN [task[t] EXCEPT !.late = TRUE] ELSE task[t]]
  /\ last' = "other"
  /\ UNCHANGED <<rawConfig, config, providers, contracts, cache, queryCount,
                 cacheHits, env, calls, admin>>

\* NodeCache's periodic check deletes the expired entries
Sweep ==
  /\ \E k \in DOMAIN cache : Expired(cache[k], now)
  /\ cache' = CacheAfterSweep(cache, now)
  /\ last' = "other"
  /\ UNCHANGED <<now, ticks, rawConfig, config, providers, contracts, queryCount,
                 cacheHits, env, task, calls, admin>>

(***************************************************************************)
(* Administration                                                          *)
(***************************************************************************)
\* the calls that have returned are marked when the cache is flushed
Flushed(tasks) ==
  [t \in Tasks |-> IF tasks[t].returned THEN [tasks[t] EXCEPT !.flushed = TRUE]
                   ELSE tasks[t]]

\* the calls in flight are marked when a reload completes
Outdated(tasks) ==
  [t \in Tasks |-> IF Running(tasks[t]) THEN [tasks[t] EXCEPT !.old = TRUE]
                   ELSE tasks[t]]

\* BlockchainService.clearCache (also GET /clear-cache)
clearCache ==
  /\ admin < env.admin
  /\ admin' = admin + 1
  /\ cache' = EmptyCache
  /\ task' = Flushed(task)
  /\ last' = "clear"
  /\ UNCHANGED <<now, ticks, rawConfig, config, providers, contracts, queryCount,
                 cacheHits, env, calls>>

\* a reload that flushes the cache and keeps the handles it finds
reloadKeepingHandles(f, raw, cfg, c) ==
  LET r == reloadConfigResult(f, raw, cfg) IN
  [ok |-> r.ok, rawConfig |-> r.rawConfig, config |-> r.config,
   providers |-> providers, contracts |-> contracts,
   cache |-> IF r.ok THEN EmptyCache ELSE c]

\* a reload that clears the contract handles and keeps the providers
reloadKeepingProviders(f, raw, cfg, c) ==
  LET r == reloadConfigResult(f, raw, cfg) IN
  [ok |-> r.ok, rawConfig |-> r.rawConfig, config |-> r.config,
   providers |-> providers, contracts |-> NoHandles,
   cache |-> IF r.ok THEN EmptyCache ELSE c]

\* what BlockchainService.reloadContractConfigurations leaves when the file
\* holds f: the handles are cleared first, then the configuration is
\* reloaded, then the cache is flushed; a throw of reloadConfig leaves the
\* cache as it is
reloadContractConfigurationsResult(f, raw, cfg, c) ==
  LET r == reloadConfigResult(f, raw, cfg) IN
  [ok |-> r.ok, rawConfig |-> r.rawConfig, config |-> r.config,
   providers |-> NoHandles, contracts |-> NoHandles,
   cache |-> IF r.ok THEN EmptyCache ELSE c]

\* BlockchainService.reloadContractConfigurations, called on the service
reloadContractConfigurations ==
  /\ admin < env.admin
  /\ admin' = admin + 1
  /\ LET r == reloadContractConfigurationsResult(env.file, rawConfig, config, cache) IN
       /\ rawConfig' = r.rawConfig
       /\ config' = r.config
       /\ providers' = r.providers
       /\ contracts' = r.contracts
       /\ cache' = r.cache
       /\ task' = IF r.ok THEN Outdated(Flushed(task)) ELSE task
       /\ last' = IF r.ok THEN "reload_ok" ELSE "reload_fail"
  /\ UNCHANGED <<now, ticks, queryCount, cacheHits, env, calls>>

\* VerificationController.reloadConfig (GET /reload-config):
\* configLoader.reloadConfig(), then reloadContractConfigurations(); a throw
\* of the first is answered with 500 before the service is touched
reloadConfig ==
  /\ admin < env.admin
  /\ admin' = admin + 1
  /\ LET r1 == reloadConfigResult(env.file, rawConfig, config)
         r2 == reloadContractConfigurationsResult(env.file, r1.rawConfig, r1.config, cache)
     IN IF r1.ok
        THEN /\ rawConfig' = r2.rawConfig
             /\ config' = r2.config
             /\ providers' = r2.providers
             /\ contracts' = r2.contracts
             /\ cache' = r2.cache
             /\ task' = IF r2.ok THEN Outdated(Flushed(task)) ELSE task
             /\ last' = IF r2.ok THEN "reload_ok" ELSE "reload_fail"
        ELSE /\ rawConfig' = r1.rawConfig
             /\ config' = r1.config
             /\ last' = "route_fail"
             /\ UNCHANGED <<providers, contracts, cache, task>>
  /\ UNCHANGED <<now, ticks, queryCount, cacheHits, env, calls>>

Next ==
  \/ \E t \in Tasks : CallHasInteracted(t)
  \/ \E t \in Tasks : CallHasInteractedInTimeRange(t)
  \/ \E t \in Tasks : GetVerifyRequest(t)
  \/ \E t \in Tasks : GetVerifyInRangeRequest(t)
  \/ \E t \in Tasks : Resolve(t)
  \/ \E t \in Tasks : VerificationTimeout(t)
  \/ \E d \in TickSteps : Tick(d)
  \/ Sweep
  \/ clearCache
  \/ reloadContractConfigurations
  \/ reloadConfig

(***************************************************************************)
(* Environments                                                            *)
(***************************************************************************)
Environment(requests, file, ledger, nCalls, nRunning, nAdmin, nTicks) ==
  [requests |-> requests, file |-> file, ledger |-> ledger, calls |-> nCalls,
   running |-> nRunning, admin |-> nAdmin, ticks |-> nTicks]

\* the requests of an environment
TwoContracts == {HasInteracted("0xaa", "c1", ""), HasInteracted("0xaa", "c2", "")}

Campaign ==
  {HasInteracted("0xaa", "c1", "k1"),
   HasInteractedInTimeRange("0xaa", 5000000, 12500000, "c1", "")}

Quiet ==
  {HasInteracted("0xBb", "c2", ""),
   HasInteractedInTimeRange("0xBb", 5000000, 12500000, "c1", "k1")}

\* the minter of contract c2, which has neither transactions nor Transfer logs
Minters ==
  {HasInteracted("0xMM", "c2", ""),
   HasInteractedInTimeRange("0xMM", 0, 5000000, "c2", "")}

\* one campaign, two pairs of explicit dates
CampaignAndDates ==
  {HasInteractedInTimeRange("0xaa", 0, 5000000, "c1", "k1"),
   HasInteractedInTimeRange("0xaa", 12500000, 15000000, "c1", "k1")}

\* requests that the handlers refuse, next to one they pass on
BadRequests ==
  {GetVerify("0xaa", "c1", ""), GetVerify("", "c1", ""), GetVerify("0xaa", "", ""),
   GetVerify("0xMM", "c1", ""),
   GetVerifyInRange("0xMM", "c1", "k1", "", ""),
   GetVerifyInRange("0xaa", "", "", "1970-01-01", "1970-01-01T01:23:20Z"),
   GetVerifyInRange("0xaa", "c1", "", "", "1970-01-01T01:23:20Z"),
   GetVerifyInRange("0xaa", "c1", "", "1970-01-01", ""),
   GetVerifyInRange("0xaa", "c1", "", "soon", "1970-01-01"),
   GetVerifyInRange("0xaa", "c1", "", "1970-01-01", "later"),
   GetVerifyInRange("0xaa", "c1", "", "1970-01-01T03:28:20Z", "1970-01-01T01:23:20Z"),
   GetVerifyInRange("0xaa", "c1", "", "1970-01-02T00:00:00Z", "1970-01-01")}

\* calls for an address whose one Transfer log lies far behind the head:
\* a wide and a narrow window around the log, the instant of the log's
\* block, a later window, and all time
LongChain ==
  {HasInteractedInTimeRange("0xcc", 125000000, 625000000, "c1", ""),
   HasInteractedInTimeRange("0xcc", 130000000, 145000000, "c1", ""),
   HasInteractedInTimeRange("0xcc", 137500000, 137500000, "c1", ""),
   HasInteractedInTimeRange("0xcc", 650000000, 700000000, "c1", ""),
   HasInteracted("0xcc", "c1", "")}

\* an address with activity and one without, each asked about repeatedly
Repeated == {HasInteracted("0xaa", "c1", ""), HasInteracted("0xbb", "c2", "")}

\* a narrow window, and a window of 274999 blocks that starts at block 1
\* and has the log of 0xcc under its fifth sampling point
FromGenesis ==
  {HasInteractedInTimeRange("0xcc", 130000000, 145000000, "c1", ""),
   HasInteractedInTimeRange("0xcc", 0, 687500000, "c1", "")}

\* calls without an address or without a contract id, next to a valid call
EmptyInputs ==
  {HasInteracted("0xaa", "c1", ""), HasInteracted("", "c1", ""),
   HasInteracted("0xaa", "", ""),
   HasInteractedInTimeRange("", 0, 5000000, "c1", ""),
   HasInteractedInTimeRange("0xaa", 0, 5000000, "", "k1")}

\* a campaign id that no contract defines, after a call without a campaign
UndefinedCampaign ==
  {HasInteracted("0xaa", "c1", ""), HasInteracted("0xaa", "c1", "all"),
   HasInteractedInTimeRange("0xaa", 5000000, 12500000, "c1", "k9")}

\* a contract id that the configuration does not hold, next to one it holds
UnknownContract ==
  {HasInteracted("0xaa", "c1", ""), HasInteracted("0xaa", "c9", ""),
   HasInteractedInTimeRange("0xaa", 0, 5000000, "c9", "")}

Routes ==
  {GetVerify("0xBb", "c1", ""),
   GetVerifyInRange("0xBb", "c1", "", "1970-01-01T01:23:20Z", "1970-01-01T03:28:20Z"),
   GetVerifyInRange("0xaa", "c2", "k1", "", ""),
   GetVerifyInRange("0xaa", "c1", "k1", "1970-01-01", "1970-01-01T01:23:20Z")}

Environments ==
  { Environment(TwoContracts, "B", "flaky", MaxCalls, MaxRunning, 0, 0),
    Environment(TwoContracts, "B", "flaky", 2, MaxRunning, MaxAdmin, 0),
    Environment(TwoContracts, "A", "flaky", MaxCalls, 1, 0, MaxTicks),
    Environment(TwoContracts, "A", "flaky", 2, MaxRunning, 0, MaxTicks),
    Environment(TwoContracts \cup Campaign, "A", "dead", 2, MaxRunning, 0, MaxTicks),
    Environment(Campaign, "B", "flaky", 2, MaxRunning, 1, 0),
    Environment(Quiet, "B", "flaky", 2, MaxRunning, 1, 0),
    Environment(Quiet, "A", "flaky", 1, 1, 0, MaxTicks),
    Environment(Routes, "A", "flaky", 2, MaxRunning, 0, 0),
    Environment(Minters, "B", "ok", 2, MaxRunning, 1, MaxTicks),
    Environment(Minters, "A", "flaky", 1, 1, 0, 0),
    Environment(UndefinedCampaign, "A", "flaky", 2, 1, 0, 0),
    Environment(Repeated, "A", "ok", 2, MaxRunning, 0, MaxTicks),
    Environment(LongChain, "A", "long", 1, 1, 0, 0),
    Environment(FromGenesis, "A", "long", 2, 1, 0, 1),
    Environment(BadRequests, "A", "flaky", 2, 1, 0, 0),
    Environment(EmptyInputs, "A", "flaky", MaxCalls, 1, 0, 0),
    Environment(UnknownContract, "B", "flaky", 2, 1, 1, 0),
    Environment(CampaignAndDates, "B", "ok", MaxCalls, MaxRunning, 0, 0),
    Environment(CampaignAndDates, "B", "flaky", 2, MaxRunning, 1, 0),
    Environment(TwoContracts, "bad", "flaky", 1, 1, MaxAdmin, 0),
    Environment(TwoContracts, "noenv", "flaky", 1, 1, MaxAdmin, 0) }

Init == \E sc \in Environments : InitWith(sc)

Spec == Init /\ [][Next]_vars

(***************************************************************************)
(* checkDirectTransactionInteractions await by await.  Spec takes the      *)
(* function in one step (ResolveDirect); SpecDirect runs one invocation    *)
(* of it as task 1, from the arguments in the task's req, suspended at     *)
(* dc_end / dc_start (the two getTransactionCount reads) and at dc_sent /   *)
(* dc_received (the getLogs calls of sub-range scanPos).                   *)
(***************************************************************************)
DirectCall(address, contractId, startBlock, endBlock) ==
  [via |-> "direct", fn |-> "checkDirectTransactionInteractions", address |-> address,
   contractId |-> contractId, startBlock |-> startBlock, endBlock |-> endBlock]

\* the invocations SpecDirect starts from: addresses with and without a
\* growing transaction count, a contract that is not configured, and windows
\* that are wide, narrow, inverted and of one block
DirectCalls ==
  {DirectCall(a, c, w[1], w[2]) :
     a \in {"0xaa", "0xbb", "0xdd"}, c \in {"c1", "c2", "c9"},
     w \in {<<1, 7000>>, <<2000, 5000>>, <<5000, 2000>>, <<4000, 4000>>}}

\* the function returns v
DirectReturn(tk, v) ==
  [tk EXCEPT !.pc = "done", !.returned = TRUE, !.result = v, !.scanPos = 0]

\* a direct check without the outer catch: a throw of getProvider or of
\* getContractConfig leaves the function
BeginDirectUncaught(call, pv, ct, cfg) ==
  LET r == getProvider(pv, ct, cfg, call.contractId)
      tk == [IdleTask EXCEPT !.req = call, !.via = call.via, !.fn = call.fn,
                             !.address = call.address, !.addr = call.address,
                             !.contractId = call.contractId,
                             !.startBlock = call.startBlock, !.endBlock = call.endBlock]
  IN IF r.ok /\ ContractKnown(cfg, call.contractId)
     THEN [t |-> [tk EXCEPT !.pc = "dc_end", !.queried = TRUE,
                            !.contractAddress = Contracts(cfg)[call.contractId].address],
           providers |-> r.providers, contracts |-> r.contracts]
     ELSE [t |-> [tk EXCEPT !.pc = "done", !.returned = TRUE, !.thrown = "contract"],
           providers |-> pv, contracts |-> ct]

\* up to the first await: getProvider and getContractConfig, whose throws
\* the outer catch turns into false, then getTransactionCount(address, endBlock)
BeginDirect(call, pv, ct, cfg) ==
  LET r == getProvider(pv, ct, cfg, call.contractId)
      tk == [IdleTask EXCEPT !.req = call, !.via = call.via, !.fn = call.fn,
                             !.address = call.address, !.addr = call.address,
                             !.contractId = call.contractId,
                             !.startBlock = call.startBlock, !.endBlock = call.endBlock]
  IN IF r.ok /\ ContractKnown(cfg, call.contractId)
     THEN [t |-> [tk EXCEPT !.pc = "dc_end", !.queried = TRUE,
                            !.contractAddress = Contracts(cfg)[call.contractId].address],
           providers |-> r.providers, contracts |-> r.contracts]
     ELSE [t |-> DirectReturn(tk, FALSE), providers |-> pv, contracts |-> ct]

InitDirect ==
  \E ledger \in {"ok", "flaky"}, call \in DirectCalls :
    LET b == BeginDirect(call, NoHandles, NoHandles, "A") IN
    /\ now = 0
    /\ ticks = 0
    /\ rawConfig = "A"
    /\ config = "A"
    /\ providers = b.providers
    /\ contracts = b.contracts
    /\ cache = EmptyCache
    /\ queryCount = 0
    /\ cacheHits = 0
    /\ env = Environment({call}, "A", ledger, 1, 1, 0, 0)
    /\ task = [t \in Tasks |-> IF t = 1 THEN b.t ELSE IdleTask]
    /\ calls = 1
    /\ admin = 0
    /\ last = "init"

DirectStep(tk) ==
  /\ task' = [task EXCEPT ![1] = tk]
  /\ last' = "other"
  /\ UNCHANGED <<now, ticks, rawConfig, config, providers, contracts, cache,
                 queryCount, cacheHits, env, calls, admin>>

\* a loop that answers false when no sub-range held a log
NextDirectRangeStrict(tk) ==
  IF tk.scanPos < 2
  THEN [tk EXCEPT !.pc = "dc_sent", !.scanPos = @ + 1]
  ELSE DirectReturn(tk, FALSE)

\* the sub-range after this one is tried, or the loop is over: return true
NextDirectRange(tk) ==
  IF tk.scanPos < 2
  THEN [tk EXCEPT !.pc = "dc_sent", !.scanPos = @ + 1]
  ELSE DirectReturn(tk, TRUE)

\* await provider.getTransactionCount(address, endBlock); a rejection goes
\* to the inner catch and on to return false
DirectCountAtEnd ==
  /\ task[1].pc = "dc_end"
  /\ \E o \in Outcomes :
       DirectStep(IF o = "ok" THEN [task[1] EXCEPT !.pc = "dc_start", !.reads = @ + 1]
                  ELSE DirectReturn(task[1], FALSE))

\* await provider.getTransactionCount(address, startBlock), then
\* if (addressTxCount > addressTxCountStart) the loop begins
DirectCountAtStart ==
  /\ task[1].pc = "dc_start"
  /\ \E o \in Outcomes :
       LET tk == [task[1] EXCEPT !.reads = @ + 1] IN
       DirectStep(IF o # "ok" THEN DirectReturn(task[1], FALSE)
                  ELSE IF TransactionCount(tk.addr, tk.endBlock)
                            > TransactionCount(tk.addr, tk.startBlock)
                       THEN [tk EXCEPT !.pc = "dc_sent", !.scanPos = 0]
                       ELSE DirectReturn(tk, FALSE))

\* await provider.getLogs (sender filter) over the sub-range; a rejection
\* is caught by the try around the sub-range
DirectSentLogs ==
  /\ task[1].pc = "dc_sent"
  /\ \E o \in Outcomes :
       LET tk == task[1]
           range == DirectRange(tk.startBlock, tk.endBlock, tk.scanPos)
       IN DirectStep(IF o # "ok" THEN NextDirectRange(tk)
                     ELSE IF AnyLog(SentLogs(tk.contractAddress, tk.addr),
                                    range.from, range.to)
                          THEN DirectReturn(tk, TRUE)
                          ELSE [tk EXCEPT !.pc = "dc_received"])

\* await provider.getLogs (recipient filter) over the sub-range
DirectReceivedLogs ==
  /\ task[1].pc = "dc_received"
  /\ \E o \in Outcomes :
       LET tk == task[1]
           range == DirectRange(tk.startBlock, tk.endBlock, tk.scanPos)
       IN DirectStep(IF o = "ok" /\ AnyLog(ReceivedLogs(tk.contractAddress, tk.addr),
                                           range.from, range.to)
                     THEN DirectReturn(tk, TRUE)
                     ELSE NextDirectRange(tk))

NextDirect ==
  \/ DirectCountAtEnd
  \/ DirectCountAtStart
  \/ DirectSentLogs
  \/ DirectReceivedLogs

SpecDirect == InitDirect /\ [][NextDirect]_vars

(***************************************************************************)
(* One invocation of queryWithRetry, await by await, with its timers       *)
(***************************************************************************)

\* setTimeout(() => reject(new Error("Query timeout")), 3000)
QueryTimeoutMs == 3000

\* the factor of setTimeout(resolve, 300 * (retryCount + 1))
RetryBaseDelay == 300

\* the clock advances of the retry machine, ms: the second one lets a timer
\* callback run later than the time it was set for
RetryTicks == {300, 1500}

\* a delay that does not grow with the attempt
RetryDelayFlat(retryCount) == RetryBaseDelay

\* 300 * (retryCount + 1)
RetryDelay(retryCount) == RetryBaseDelay * (retryCount + 1)

RetryCall(contractId, fromBlock, toBlock, filter) ==
  [via |-> "retry", fn |-> "queryWithRetry", contractId |-> contractId,
   fromBlock |-> fromBlock, toBlock |-> toBlock, filter |-> filter]

\* the queries SpecRetry starts from: Transfer filters by sender and by
\* recipient, a contract that is not configured and the empty contract id,
\* a range that holds the logs of the ledger and one that does not
RetryCalls ==
  {RetryCall(c, w[1], w[2], [kind |-> k, address |-> a]) :
     c \in {"c1", "c9", ""}, w \in {<<1, 7000>>, <<4500, 5000>>},
     k \in {"from", "to"}, a \in {"0xaa"}}

\* contract.queryFilter(filter, fromBlock, toBlock) when the endpoint answers
queryFilter(contractAddress, filter, fromBlock, toBlock) ==
  {b \in (IF filter.kind = "from" THEN SentLogs(contractAddress, filter.address)
                                  ELSE ReceivedLogs(contractAddress, filter.address)) :
     fromBlock <= b /\ b <= toBlock}

\* the promise of queryWithRetry resolves with the logs
RetryReturn(tk, logs) ==
  [tk EXCEPT !.pc = "done", !.returned = TRUE, !.logs = logs, !.deadline = NoTimer]

\* a catch block that throws once the retries are used up
QueryCatchRethrow(tk, time, how) ==
  LET t1 == [tk EXCEPT !.ends = Append(@, how)] IN
  IF tk.retryCount < MAX_RETRIES
  THEN [t1 EXCEPT !.pc = "qr_delay", !.timerSet = time,
                  !.deadline = time + RetryDelay(tk.retryCount)]
  ELSE [t1 EXCEPT !.pc = "done", !.thrown = how, !.deadline = NoTimer]

\* the catch block: the delay timer is set while retries are left, the empty
\* list is returned otherwise
QueryCatch(tk, time, how) ==
  LET t1 == [tk EXCEPT !.ends = Append(@, how)] IN
  IF tk.retryCount < MAX_RETRIES
  THEN [t1 EXCEPT !.pc = "qr_delay", !.timerSet = time,
                  !.deadline = time + RetryDelay(tk.retryCount)]
  ELSE RetryReturn(t1, {})

\* the try block up to its await: getContract, the timeout timer, the race;
\* getContract throws into the catch block for a contract it cannot create
QueryAttempt(tk, pv, ct, cfg, time) ==
  LET r == getContract(pv, ct, cfg, tk.req.contractId)
      t1 == [tk EXCEPT !.attempts = @ + 1]
  IN IF r.ok
     THEN [t |-> [t1 EXCEPT !.pc = "qr_race", !.queried = TRUE, !.timerSet = time,
                            !.deadline = time + QueryTimeoutMs,
                            !.contractAddress = Contracts(cfg)[tk.req.contractId].address],
           providers |-> r.providers, contracts |-> r.contracts]
     ELSE [t |-> QueryCatch(t1, time, "nocontract"),
           providers |-> pv, contracts |-> ct]

InitRetry ==
  \E ledger \in {"ok", "flaky", "dead"}, call \in RetryCalls :
    LET b == QueryAttempt([IdleTask EXCEPT !.req = call, !.via = call.via, !.fn = call.fn,
                                           !.contractId = call.contractId,
                                           !.addr = call.filter.address],
                          NoHandles, NoHandles, "A", 0)
    IN
    /\ now = 0
    /\ ticks = 0
    /\ rawConfig = "A"
    /\ config = "A"
    /\ providers = b.providers
    /\ contracts = b.contracts
    /\ cache = EmptyCache
    /\ queryCount = 0
    /\ cacheHits = 0
    /\ env = Environment({call}, "A", ledger, 1, 1, 0, 0)
    /\ task = [t \in Tasks |-> IF t = 1 THEN b.t ELSE IdleTask]
    /\ calls = 1
    /\ admin = 0
    /\ last = "init"

RetryStep(tk) ==
  /\ task' = [task EXCEPT ![1] = tk]
  /\ last' = "other"
  /\ UNCHANGED <<now, ticks, rawConfig, config, cache, queryCount, cacheHits,
                 env, calls, admin>>

\* time passes while a timer of the invocation is pending and not yet due
RetryTick ==
  /\ task[1].pc \in {"qr_race", "qr_delay"}
  /\ now < task[1].deadline
  /\ \E d \in RetryTicks : now' = now + d
  /\ ticks' = ticks + 1
  /\ last' = "tick"
  /\ UNCHANGED <<rawConfig, config, providers, contracts, cache, queryCount,
                 cacheHits, env, task, calls, admin>>

\* contract.queryFilter settles first: the logs are returned, or the
\* rejection is caught
QueryResponds ==
  /\ task[1].pc = "qr_race"
  /\ \E o \in Outcomes :
       LET tk == task[1] IN
       RetryStep(IF o = "ok"
                 THEN RetryReturn([tk EXCEPT !.ends = Append(@, "ok")],
                                  queryFilter(tk.contractAddress, tk.req.filter,
                                              tk.req.fromBlock, tk.req.toBlock))
                 ELSE QueryCatch(tk, now, "err"))
  /\ UNCHANGED <<providers, contracts>>

\* the timeout timer fires first: its rejection is caught
QueryTimeout ==
  /\ task[1].pc = "qr_race"
  /\ now >= task[1].deadline
  /\ RetryStep(QueryCatch(task[1], now, "timeout"))
  /\ UNCHANGED <<providers, contracts>>

\* the delay timer fires: queryWithRetry is invoked with retryCount + 1
RetryDelayOver ==
  /\ task[1].pc = "qr_delay"
  /\ now >= task[1].deadline
  /\ LET b == QueryAttempt([task[1] EXCEPT !.retryCount = @ + 1],
                           providers, contracts, config, now)
     IN /\ RetryStep(b.t)
        /\ providers' = b.providers
        /\ contracts' = b.contracts

NextRetry ==
  \/ RetryTick
  \/ QueryResponds
  \/ QueryTimeout
  \/ RetryDelayOver

\* the event loop runs the callback of a timer that is due, and time passes
SpecRetry ==
  /\ InitRetry
  /\ [][NextRetry]_vars
  /\ WF_vars(RetryTick)
  /\ WF_vars(QueryTimeout)
  /\ WF_vars(RetryDelayOver)

(***************************************************************************)
(* The two getApproximateBlockForDate calls of hasInteractedInTimeRange    *)
(* over a chain whose head moves                                           *)
(***************************************************************************)

\* blocks the chain may add while the two calls run
MaxNewBlocks == 2

\* seconds between the timestamps of two blocks of a chain with a block
\* every 2.5 seconds
BlockIntervals == {2, 3}

\* head block and head timestamp (seconds) when the first call starts
ChainHeads == {<<1, 10>>, <<2, 10>>, <<3, 11>>, <<40, 100>>, <<40, 101>>}

\* the dates (ms) the two calls are made for
BlockDates ==
  {-1500, 0, 5000, 8000, 8999, 9000, 10000, 11000, 13000, 95000, 96500, 98000,
   100000, 101000, 200000}

ApproximateCall(startDate, endDate) ==
  [via |-> "blocks", fn |-> "getApproximateBlockForDate", contractId |-> "c1",
   startDate |-> startDate, endDate |-> endDate]

\* an endpoint that answers every call, with the head of the chain it has
LiveChain(call, head, headTimestamp) ==
  [requests |-> {call}, file |-> "A", ledger |-> "live", calls |-> 1, running |-> 1,
   admin |-> 0, ticks |-> MaxNewBlocks, head |-> head, headTimestamp |-> headTimestamp]

InitBlocks ==
  \E h \in ChainHeads, startDate \in BlockDates, endDate \in BlockDates :
    LET call == ApproximateCall(startDate, endDate)
        r == getProvider(NoHandles, NoHandles, "A", call.contractId)
    IN
    /\ now = 0
    /\ ticks = 0
    /\ rawConfig = "A"
    /\ config = "A"
    /\ providers = r.providers
    /\ contracts = r.contracts
    /\ cache = EmptyCache
    /\ queryCount = 0
    /\ cacheHits = 0
    /\ env = LiveChain(call, h[1], h[2])
    /\ task = [t \in Tasks |->
                 IF t = 1
                 THEN [IdleTask EXCEPT !.pc = "ab_start", !.req = call, !.via = call.via,
                                       !.fn = call.fn, !.contractId = call.contractId,
                                       !.winStart = startDate, !.winEnd = endDate,
                                       !.queried = TRUE]
                 ELSE IdleTask]
    /\ calls = 1
    /\ admin = 0
    /\ last = "init"

\* the chain adds a block while a call is pending
NewBlock ==
  /\ task[1].pc \in {"ab_start", "ab_end"}
  /\ ticks < env.ticks
  /\ \E d \in BlockIntervals :
       env' = [env EXCEPT !.head = @ + 1, !.headTimestamp = @ + d]
  /\ ticks' = ticks + 1
  /\ last' = "block"
  /\ UNCHANGED <<now, rawConfig, config, providers, contracts, cache, queryCount,
                 cacheHits, task, calls, admin>>

\* const startBlock = await this.getApproximateBlockForDate(contractId, startDate)
ApproximateStart ==
  /\ task[1].pc = "ab_start"
  /\ task' = [task EXCEPT ![1] =
                [@ EXCEPT !.pc = "ab_end", !.currentBlock = getBlockNumber,
                          !.startBlock = ApproximateBlock(getBlockNumber, getBlockTimestamp,
                                                          task[1].winStart)]]
  /\ last' = "other"
  /\ UNCHANGED <<now, ticks, rawConfig, config, providers, contracts, cache,
                 queryCount, cacheHits, env, calls, admin>>

\* const endBlock = await this.getApproximateBlockForDate(contractId, endDate)
ApproximateEnd ==
  /\ task[1].pc = "ab_end"
  /\ task' = [task EXCEPT ![1] =
                [@ EXCEPT !.pc = "done", !.returned = TRUE,
                          !.endBlock = ApproximateBlock(getBlockNumber, getBlockTimestamp,
                                                        task[1].winEnd)]]
  /\ last' = "other"
  /\ UNCHANGED <<now, ticks, rawConfig, config, providers, contracts, cache,
                 queryCount, cacheHits, env, calls, admin>>

NextBlocks ==
  \/ NewBlock
  \/ ApproximateStart
  \/ ApproximateEnd

SpecBlocks == InitBlocks /\ [][NextBlocks]_vars

(***************************************************************************)
(* getAccurateBlockForDate: the binary search, await by await              *)
(***************************************************************************)

\* const MAX_ITERATIONS = 20
MAX_ITERATIONS == 20

\* sampled blocks that may fail to resolve or throw in one search
MaxFailures == 2

\* the head blocks the search starts from, the last one with more blocks
\* than 20 halvings remove
SearchHeads == {1, 7, 40, 2000000}

\* the target timestamps (seconds): before the first block, between blocks,
\* the timestamp of a block, and after the head of the short chains
SearchTargets == {1, 17, 18, 50, 98, 101, 1250000, 1300001, 2000000}

Abs(x) == IF x < 0 THEN -x ELSE x

AccurateCall(head, targetDate) ==
  [via |-> "search", fn |-> "getAccurateBlockForDate", head |-> head,
   targetDate |-> targetDate]

\* return block
SearchReturn(tk, block) ==
  [tk EXCEPT !.pc = "done", !.returned = TRUE, !.foundBlock = block]

\* the head of the while loop: the next block is asked for, or the loop is
\* over and bestBlock is returned
SearchLoop(tk) ==
  IF tk.low <= tk.high /\ tk.iterations < MAX_ITERATIONS
  THEN [tk EXCEPT !.pc = "sb_mid", !.iterations = @ + 1,
                  !.mid = (tk.low + tk.high) \div 2]
  ELSE SearchReturn(tk, tk.bestBlock)

\* a search that gives up at the first block it cannot get
SearchFailedAborts(tk) ==
  [tk EXCEPT !.pc = "done", !.returned = TRUE, !.thrown = "ledger",
             !.failures = @ + 1]

\* the sampled block is null or has no timestamp, or getBlock threw:
\* low = mid + 1 and the loop goes on
SearchFailed(tk) ==
  SearchLoop([tk EXCEPT !.low = tk.mid + 1, !.failures = @ + 1])

\* the sampled block resolved: best match, exact match, or half the window
SearchResolved(tk, targetTimestamp) ==
  LET timestamp == BlockTimestamp(tk.mid)
      diff == Abs(timestamp - targetTimestamp)
      t1 == [tk EXCEPT !.sampled = @ \cup {tk.mid},
                       !.bestDiff = IF diff < tk.bestDiff THEN diff ELSE @,
                       !.bestBlock = IF diff < tk.bestDiff THEN tk.mid ELSE @]
  IN IF timestamp = targetTimestamp THEN SearchReturn(t1, tk.mid)
     ELSE IF timestamp < targetTimestamp
          THEN SearchLoop([t1 EXCEPT !.low = tk.mid + 1])
          ELSE SearchLoop([t1 EXCEPT !.high = tk.mid - 1])

InitSearch ==
  \E head \in SearchHeads, target \in SearchTargets :
    LET call == AccurateCall(head, target * 1000) IN
    /\ now = 0
    /\ ticks = 0
    /\ rawConfig = "A"
    /\ config = "A"
    /\ providers = NoHandles
    /\ contracts = NoHandles
    /\ cache = EmptyCache
    /\ queryCount = 0
    /\ cacheHits = 0
    /\ env = Environment({call}, "A", "flaky", 1, 1, 0, 0)
    /\ task = [t \in Tasks |->
                 IF t = 1
                 THEN [IdleTask EXCEPT !.pc = "sb_head", !.req = call, !.via = call.via,
                                       !.fn = call.fn, !.queried = TRUE]
                 ELSE IdleTask]
    /\ calls = 1
    /\ admin = 0
    /\ last = "init"

SearchStep(tk) ==
  /\ task' = [task EXCEPT ![1] = tk]
  /\ last' = "other"
  /\ UNCHANGED <<now, ticks, rawConfig, config, providers, contracts, cache,
                 queryCount, cacheHits, env, calls, admin>>

\* getBlockNumber and getBlock(currentBlock) have come back: the function
\* throws, returns the head for a target at or after it, or starts the loop
SearchHead ==
  /\ task[1].pc = "sb_head"
  /\ \E o \in {"ok", "null", "err"} :
       LET tk == task[1]
           head == tk.req.head
           targetTimestamp == TargetTimestamp(tk.req.targetDate)
       IN SearchStep(
            IF o # "ok" THEN [tk EXCEPT !.pc = "done", !.returned = TRUE, !.thrown = "ledger"]
            ELSE IF targetTimestamp >= BlockTimestamp(head)
                 THEN SearchReturn([tk EXCEPT !.currentBlock = head], head)
                 ELSE SearchLoop([tk EXCEPT !.currentBlock = head, !.low = 1,
                                            !.high = head, !.bestBlock = head,
                                            !.bestDiff = Abs(BlockTimestamp(head)
                                                               - targetTimestamp)]))

\* await this.provider.getBlock(mid) comes back with the block
SearchSampleResolves ==
  /\ task[1].pc = "sb_mid"
  /\ SearchStep(SearchResolved(task[1], TargetTimestamp(task[1].req.targetDate)))

\* await this.provider.getBlock(mid) comes back with null, or throws
SearchSampleFails ==
  /\ task[1].pc = "sb_mid"
  /\ task[1].failures < MaxFailures
  /\ SearchStep(SearchFailed(task[1]))

NextSearch ==
  \/ SearchHead
  \/ SearchSampleResolves
  \/ SearchSampleFails

SpecSearch == InitSearch /\ [][NextSearch]_vars

(***************************************************************************)
(* Properties                                                              *)
(***************************************************************************)
\* the call of task t was made with valid inputs: a non-empty address, a
\* contract of the configuration and, if given, a campaign of that contract
ValidInputs(tk) ==
  /\ tk.address # ""
  /\ \A cfg \in {"A", "B"} :
       /\ ContractKnown(cfg, tk.contractId)
       /\ tk.campaignId # "" => getCampaignConfig(cfg, tk.contractId, tk.campaignId).kind = "ok"

\* the engine was called and has come back, with a verdict or an error
Came(tk) == tk.fn # "" /\ tk.returned

\* C1: with a ledger that never responds, a call that missed the cache does
\* not stay pending: once MAX_VERIFICATION_TIME has passed since it began it
\* has returned (false)
C1_ReturnsByDeadline ==
  \A t \in Tasks :
    (env.ledger = "dead" /\ Running(task[t]) /\ ~task[t].returned)
      => now - task[t].began <= MAX_VERIFICATION_TIME

\* C2: with valid inputs a call never throws, whatever ledger call fails: it
\* completes with a boolean verdict
C2_NeverThrows ==
  \A t \in Tasks :
    (Came(task[t]) /\ ValidInputs(task[t])) => task[t].thrown = ""

\* the block window of a call with the task's arguments, with the campaign
\* dates read from configuration cfg
WindowOf(tk, cfg) ==
  LET k == getCampaignConfig(cfg, tk.contractId, tk.campaignId)
      from == IF tk.campaignId # "" THEN DateParse(k.startDate) ELSE tk.startDate
      to == IF tk.campaignId # "" THEN DateParse(k.endDate) ELSE tk.endDate
  IN IF tk.fn = "hasInteracted" /\ tk.campaignId = ""
     THEN [from |-> Max(1, getBlockNumber - LOOKBACK), to |-> getBlockNumber]
     ELSE [from |-> ApproximateBlock(getBlockNumber, getBlockTimestamp, from),
           to |-> ApproximateBlock(getBlockNumber, getBlockTimestamp, to)]

\* the ledger holds something that speaks for the address: it is the minter
\* of the contract, its transaction count grows over the window, or the
\* window holds a Transfer log of the contract from or to it (the contract
\* address and the campaign dates are those of a configuration that was
\* loaded at some time of the call)
Evidence(tk) ==
  \E cw \in {"A", "B"}, ca \in {"A", "B"} :
    /\ ContractKnown(ca, tk.contractId)
    /\ tk.campaignId # "" => getCampaignConfig(cw, tk.contractId, tk.campaignId).kind = "ok"
    /\ LET w == WindowOf(tk, cw)
           contractAddress == Contracts(ca)[tk.contractId].address
       IN \/ IsMinter(contractAddress, tk.addr)
          \/ TransactionCount(tk.addr, w.to) > TransactionCount(tk.addr, w.from)
          \/ AnyLog(SentLogs(contractAddress, tk.addr), w.from, w.to)
          \/ AnyLog(ReceivedLogs(contractAddress, tk.addr), w.from, w.to)

\* the call came back with a verdict it computed itself
Computed(tk) == Came(tk) /\ tk.thrown = "" /\ ~tk.hit

\* C3: fail closed: a true verdict returned on a cache miss rests on a value
\* of the ledger (minter match, transaction-count increase over the window,
\* non-empty log result); no rejection, timeout or deadline expiry yields true
C3_FailClosed ==
  \A t \in Tasks : (Computed(task[t]) /\ task[t].result) => Evidence(task[t])

\* a call came back true on a miss, and another one came back false because
\* its deadline expired while its scan was still running
C3_TrueAndExpired ==
  \E t \in Tasks, u \in Tasks :
    /\ Computed(task[t]) /\ task[t].result
    /\ Computed(task[u]) /\ ~task[u].result /\ task[u].fired /\ Running(task[u])

\* C4: when the engine throws in a request whose parameters passed
\* validation, the response has status 200 and result 0
C4_ThrowAnswered200 ==
  \A t \in Tasks :
    (task[t].via \in {"verify", "range_campaign", "range_dates"}
       /\ Came(task[t]) /\ task[t].thrown # "")
      => (task[t].status = 200 /\ task[t].body = 0)

\* C5: a request that starts after a reload has completed is not answered
\* with a verdict of a call that started before that reload
C5_NoVerdictFromBeforeReload ==
  \A t \in Tasks : task[t].hit => ~task[t].stale

\* C6: a call repeated with the inputs of a call that has computed and
\* returned a verdict, within the TTL and with no clear or reload (here: none in the whole
\* behaviour), returns that verdict and issues no ledger query
C6_Idempotent ==
  \A a \in Tasks, c \in Tasks :
    (/\ admin = 0
     /\ a \in task[c].recent
     /\ task[a].req = task[c].req
     /\ Computed(task[a])
     /\ Came(task[c]))
      => (/\ task[c].thrown = ""
          /\ task[c].result = task[a].result
          /\ ~task[c].queried)

\* C7: a call that returns a verdict after a miss has written the verdict
\* under every key it looked up
C7_CachedUnderLookedUpKey ==
  \A t \in Tasks : Computed(task[t]) => task[t].lookups \subseteq task[t].writes

\* hasInteracted(addr, A) and hasInteracted(addr, B) of one address and two
\* different contract ids
TwoContractsOneAddress(t, u) ==
  /\ task[t].fn = "hasInteracted" /\ task[u].fn = "hasInteracted"
  /\ task[t].campaignId = "" /\ task[u].campaignId = ""
  /\ task[t].addr # "" /\ task[t].addr = task[u].addr
  /\ task[t].contractId # task[u].contractId

\* C8: cache isolation: calls for one address and two different contracts
\* never read or write the same cache entry, and clearCache leaves no entry
C8_CacheIsolation ==
  /\ \A t \in Tasks, u \in Tasks :
       TwoContractsOneAddress(t, u)
         => (task[t].lookups \cup task[t].writes)
              \cap (task[u].lookups \cup task[u].writes) = {}
  /\ last = "clear" => cache = EmptyCache

\* two such calls have written their verdicts, and the one clearCache of the
\* behaviour has then removed both entries
C8_BothWrittenThenCleared ==
  \E t \in Tasks, u \in Tasks :
    /\ TwoContractsOneAddress(t, u)
    /\ task[t].writes # {} /\ task[u].writes # {}
    /\ task[t].flushed /\ task[u].flushed
    /\ admin = 1 /\ last = "clear" /\ cache = EmptyCache

\* C9: an entry expires CACHE_TTL seconds after its insertion whatever reads
\* it, and a lookup is a hit only within CACHE_TTL seconds of the write
C9_FixedTTL ==
  /\ \A k \in DOMAIN cache :
       \E a \in Tasks : /\ task[a].returned /\ k \in task[a].writes
                        /\ cache[k].t = task[a].ended + CACHE_TTL * 1000
  /\ \A c \in Tasks :
       task[c].hit
         => \E a \in Tasks \ {c} :
              /\ Computed(task[a])
              /\ task[a].writes \cap task[c].lookups # {}
              /\ task[a].ended <= task[c].ended
              /\ task[c].ended - task[a].ended <= CACHE_TTL * 1000

\* a verdict was written, read within its TTL, and looked up again after the
\* TTL of the write but within a TTL of the read: that lookup missed
C9_MissAfterReadWithinTTL ==
  \E a \in Tasks, b \in Tasks, c \in Tasks :
    /\ Computed(task[a])
    /\ task[b].hit /\ task[b].lookups \cap task[a].writes # {}
    /\ task[b].ended > task[a].ended
    /\ Running(task[c]) /\ ~task[c].hit /\ task[c].cacheKey \in task[a].writes
    /\ task[c].began - task[b].ended <= CACHE_TTL * 1000
    /\ task[c].began - task[a].ended > CACHE_TTL * 1000

\* every handle was created from the configuration that is loaded
HandlesCurrent ==
  /\ \A id \in DOMAIN providers : providers[id].cfg = config
  /\ \A id \in DOMAIN contracts : contracts[id].cfg = config

\* C10: a successful reload leaves an empty cache and no handle, the handles
\* created afterwards belong to the reloaded configuration, and clearCache
\* leaves an empty cache and the handles as they were
C10_ReloadAndClear ==
  /\ []HandlesCurrent
  /\ [][/\ last' = "reload_ok"
             => (cache' = EmptyCache /\ providers' = NoHandles /\ contracts' = NoHandles)
        /\ last' = "clear"
             => (cache' = EmptyCache /\ providers' = providers /\ contracts' = contracts)]_vars

\* after a reload to configuration B a call has created handles again, and
\* clearCache has then run and left them
C10_ClearedWithNewHandles ==
  /\ last = "clear" /\ config = "B" /\ rawConfig = "B"
  /\ contracts # NoHandles /\ providers # NoHandles
  /\ cache = EmptyCache

\* the deadline has decided the race of the call (false was cached and
\* returned) and the checkActivityFast it started is still running
Abandoned(tk) == Running(tk) /\ tk.returned /\ tk.fired

\* the abandoned pipeline of the task takes a step
PipelineStep(t) ==
  <<task[t].pc, task[t].scanPhase, task[t].scanPos>>
    # <<task'[t].pc, task'[t].scanPhase, task'[t].scanPos>>

\* C11: when the deadline timer wins the race the call returns false without
\* throwing and false is cached under its key; what the abandoned
\* checkActivityFast produces afterwards changes neither verdict nor cache
C11_DeadlineDecides ==
  [][\A t \in Tasks :
       /\ (~task[t].returned /\ Abandoned(task'[t]))
            => /\ ~task'[t].result /\ task'[t].thrown = ""
               /\ CacheHas(cache', task'[t].cacheKey, now')
               /\ ~cache'[task'[t].cacheKey].v
       /\ (Abandoned(task[t]) /\ PipelineStep(t))
            => /\ task'[t].returned /\ task'[t].result = task[t].result
               /\ task'[t].thrown = task[t].thrown
               /\ cache' = cache]_vars

\* an abandoned pipeline is suspended at a scan whose range holds a Transfer
\* log of the address: its next result is true
C11_AbandonedAboutToFind ==
  \E t \in Tasks :
    /\ Abandoned(task[t]) /\ ~task[t].result /\ task[t].pc = "scan"
    /\ AnyLog(SentLogs(task[t].target, task[t].addr),
              ScanRange(task[t]).from, ScanRange(task[t]).to)

\* the ledger answers every call
Reliable == Outcomes = {"ok"}

\* the address of the call is the minter of the contract, whichever
\* configuration the contract handle was created from
MinterOfContract(tk) ==
  \A cfg \in {"A", "B"} :
    /\ ContractKnown(cfg, tk.contractId)
    /\ toLowerCase(Minter(Contracts(cfg)[tk.contractId].address)) = toLowerCase(tk.address)

CampaignOf(tk) == getCampaignConfig(config, tk.contractId, tk.req.campaignId)

\* two calls of hasInteractedInTimeRange that differ at most in their
\* explicit dates
SameCampaignCall(tk, tu) ==
  /\ tk.fn = "hasInteractedInTimeRange" /\ tu.fn = "hasInteractedInTimeRange"
  /\ tk.via = "service" /\ tu.via = "service"
  /\ tk.campaignId # "" /\ tk.campaignId = tu.campaignId
  /\ tk.address = tu.address /\ tk.contractId = tu.contractId

\* C13: with a campaign id the window is the campaign's, whatever explicit
\* dates come with it: the engine replaces the dates when it starts, the
\* route passes the campaign's dates to the engine, and calls that differ
\* only in their explicit dates check the same blocks and, with a ledger
\* that answers at once and one configuration, return the same verdict
C13_CampaignPrecedence ==
  /\ [][\A t \in Tasks :
          (task[t].pc = "idle" /\ task'[t].fn = "hasInteractedInTimeRange"
             /\ task'[t].req.campaignId # "" /\ Running(task'[t]))
            => /\ CampaignOf(task'[t]).kind = "ok"
               /\ task'[t].winStart = DateParse(CampaignOf(task'[t]).startDate)
               /\ task'[t].winEnd = DateParse(CampaignOf(task'[t]).endDate)]_vars
  /\ [](\A t \in Tasks, u \in Tasks :
          (SameCampaignCall(task[t], task[u]) /\ admin = 0)
            => /\ (task[t].pc = task[u].pc /\ Running(task[t]))
                    => /\ task[t].startBlock = task[u].startBlock
                       /\ task[t].endBlock = task[u].endBlock
               /\ (Reliable /\ ticks = 0 /\ Computed(task[t]) /\ Computed(task[u]))
                    => task[t].result = task[u].result)

\* two calls with one campaign and different explicit dates have both
\* computed a verdict from the ledger
C13_TwoExplicitDates ==
  \E t \in Tasks, u \in Tasks :
    /\ SameCampaignCall(task[t], task[u]) /\ admin = 0 /\ Reliable
    /\ task[t].startDate # task[u].startDate /\ task[t].endDate # task[u].endDate
    /\ Computed(task[t]) /\ Computed(task[u])
    /\ task[t].queried /\ task[u].queried

\* the call names a campaign that the contract does not define
UnknownCampaign(tk) ==
  /\ tk.via = "service" /\ tk.campaignId # ""
  /\ \A cfg \in {"A", "B"} :
       getCampaignConfig(cfg, tk.contractId, tk.campaignId).kind = "null"

\* C14: a call with a campaign id that the contract does not define fails
\* with the campaign-not-found error and returns no verdict, whatever the
\* cache holds
C14_UnknownCampaignFails ==
  \A t \in Tasks :
    (Came(task[t]) /\ UnknownCampaign(task[t])) => task[t].thrown = "campaign"

\* the call that starts in this step as task t came without an address or
\* without a contract id
StartsWithoutInput(t) ==
  /\ task[t].pc = "idle" /\ calls' = calls + 1 /\ t = calls'
  /\ task'[t].via = "service"
  /\ (task'[t].req.address = "" \/ task'[t].req.contractId = "")

\* C15: hasInteracted and hasInteractedInTimeRange with an empty address or
\* an empty contract id fail with the input error before any cache read,
\* counter update or ledger query, and leave cache and handle pool as they were
C15_InputErrorFirst ==
  [][\A t \in Tasks :
       StartsWithoutInput(t)
         => /\ task'[t].thrown = "input" /\ task'[t].returned
            /\ ~Running(task'[t])
            /\ task'[t].lookups = {} /\ task'[t].writes = {}
            /\ ~task'[t].queried /\ ~task'[t].hit
            /\ UNCHANGED <<cache, queryCount, cacheHits, providers, contracts>>]_vars

\* both functions have refused a call without an address and one without a
\* contract id, over a cache and a handle pool that are not empty
C15_RefusedOverFilledCache ==
  /\ DOMAIN cache # {} /\ DOMAIN contracts # {} /\ queryCount > 0
  /\ \E t \in Tasks, u \in Tasks :
       /\ task[t].thrown = "input" /\ task[u].thrown = "input"
       /\ task[t].req.address = "" /\ task[u].req.contractId = ""
       /\ task[t].fn # task[u].fn

\* the instant an endDate query string stands for: a date without a time of
\* day is the end of that day
EndInstant(qEnd) ==
  IF Len(qEnd) <= 10 THEN EndOfDay(DateParse(qEnd)) ELSE DateParse(qEnd)

\* a request without an address or a contract, with a malformed address, or,
\* when it names no campaign, with missing or unparsable dates or a startDate
\* after its endDate
BadRequest(req) ==
  /\ req.via \in {"verify", "range"}
  /\ \/ req.address = "" \/ req.contractId = ""
     \/ req.address \notin {"0xaa", "0xAA", "0xbb", "0xBb"}
     \/ /\ req.via = "range" /\ req.campaignId = ""
        /\ \/ req.qStart = "" \/ req.qEnd = ""
           \/ DateParse(req.qStart) = NoDate \/ DateParse(req.qEnd) = NoDate
           \/ DateParse(req.qStart) > EndInstant(req.qEnd)

\* C16: a /verify or /verify-in-range request with a missing address or
\* contract, a malformed address, missing or unparsable dates (no campaign
\* given) or a startDate after endDate is answered 400 with result 0 and the
\* engine is not called: no ledger query, cache unchanged
C16_BadRequestAnswered400 ==
  [][\A t \in Tasks :
       (task[t].pc = "idle" /\ calls' = calls + 1 /\ t = calls'
          /\ BadRequest(task'[t].req))
         => /\ task'[t].status = 400 /\ task'[t].body = 0
            /\ task'[t].fn = "" /\ ~Running(task'[t])
            /\ ~task'[t].queried /\ task'[t].lookups = {} /\ task'[t].writes = {}
            /\ UNCHANGED <<cache, queryCount, cacheHits, providers, contracts>>]_vars

\* a request whose startDate lies after the end of its endDate day has been
\* answered 400 over a cache that holds a verdict
C16_RefusedStartAfterEnd ==
  /\ DOMAIN cache # {}
  /\ \E t \in Tasks :
       /\ task[t].status = 400 /\ task[t].body = 0
       /\ task[t].via = "range" /\ task[t].req.qEnd = "1970-01-01"
       /\ DateParse(task[t].req.qStart) > EndInstant(task[t].req.qEnd)

\* the blocks that hold a Transfer log of the task's contract from or to its
\* address, on the chain of this environment
TransferBlocks(tk) ==
  {b \in SentLogs("X", tk.addr) \cup ReceivedLogs("X", tk.addr) : b <= getBlockNumber}

\* a computed hasInteractedInTimeRange over explicit dates, on contract X, for
\* an address with one Transfer log and no transaction of its own
SingleLogCall(tk) ==
  /\ Reliable /\ ticks = 0 /\ admin = 0
  /\ Computed(tk) /\ tk.via = "service" /\ tk.fn = "hasInteractedInTimeRange"
  /\ tk.req.campaignId = "" /\ tk.contractId = "c1" /\ config = "A"
  /\ Cardinality(TransferBlocks(tk)) = 1 /\ TxBlocks(tk.addr) = {}

\* C17: with a reliable ledger and an address whose activity is one Transfer
\* log in a block of timestamp t, hasInteractedInTimeRange returns true over
\* a window that contains t and false over a later window without activity
C17_WindowMonotonicity ==
  \A t \in Tasks :
    SingleLogCall(task[t]) =>
      \A b \in TransferBlocks(task[t]) :
        /\ (task[t].startDate <= BlockTimestamp(b) * 1000
              /\ BlockTimestamp(b) * 1000 <= task[t].endDate) => task[t].result
        /\ BlockTimestamp(b) * 1000 < task[t].startDate => ~task[t].result

\* two hasInteracted calls with the same inputs have come back, over a ledger
\* that answers every query and a configuration that nobody reloaded
SameVerify(tk, tu) ==
  /\ Reliable /\ admin = 0
  /\ Came(tk) /\ Came(tu)
  /\ tk.via = "service" /\ tk.fn = "hasInteracted"
  /\ tu.req = tk.req

\* no call has waited for the ledger while the clock advanced
InTime == \A w \in Tasks : ~task[w].late

C19_EverInteracted ==
  \A t \in Tasks :
    (/\ Reliable /\ InTime /\ admin = 0 /\ config = "A"
     /\ Came(task[t]) /\ task[t].via = "service" /\ task[t].fn = "hasInteracted"
     /\ task[t].req.campaignId = "" /\ task[t].contractId = "c1"
     /\ TransferBlocks(task[t]) # {})
      => (task[t].thrown = "" /\ task[t].result)

\* the step is a reload of the contract configurations, which clears both maps
ReloadStep == last' \in {"reload_ok", "reload_fail"}

\* C20: between two reloads at most one provider handle and one contract
\* handle is created per contract id: the first use creates both, and every
\* later getProvider / getContract / initializeContract finds them and leaves
\* them in place
C20_OneHandlePerContract ==
  /\ [](/\ DOMAIN providers = DOMAIN contracts
        /\ \A id \in DOMAIN contracts :
             providers[id].serial = 1 /\ contracts[id].serial = 1)
  /\ [][~ReloadStep =>
          \A id \in DOMAIN contracts :
            /\ id \in DOMAIN contracts' /\ contracts'[id] = contracts[id]
            /\ id \in DOMAIN providers' /\ providers'[id] = providers[id]]_vars

\* two verifications of one contract have both gone to the ledger through
\* its handles, with no reload before or between them
C20_TwoUsersOfOneHandle ==
  \E t \in Tasks, u \in Tasks :
    /\ t # u /\ admin = 0
    /\ Computed(task[t]) /\ Computed(task[u])
    /\ task[t].queried /\ task[u].queried
    /\ task[t].contractId = task[u].contractId
    /\ task[t].contractId \in DOMAIN contracts
    /\ contracts[task[t].contractId].serial = 1

\* the step is a reload that failed, in the service or in the route
FailedReload == last' \in {"reload_fail", "route_fail"}

\* C21: a reload that fails (invalid file, or an RPC environment variable
\* missing) leaves the raw and the processed configuration, the ledger
\* handles and the cache exactly as they were
C21_FailedReloadChangesNothing ==
  [][FailedReload => UNCHANGED <<rawConfig, config, providers, contracts, cache>>]_vars

\* the scan the task is suspended at can only come back empty
ScanFindsNothing(tk) ==
  /\ ~AnyLog(SentLogs(tk.target, tk.addr), ScanRange(tk).from, ScanRange(tk).to)
  /\ ~AnyLog(ReceivedLogs(tk.target, tk.addr), ScanRange(tk).from, ScanRange(tk).to)

\* C22: in the sampling branch of checkActivityFast, after a sample that
\* found nothing, sampling stops with false exactly when the time elapsed
\* since the scan started exceeds MAX_VERIFICATION_TIME
C22_SamplingAbortByElapsedTime ==
  [][\A t \in Tasks :
       (/\ task[t].pc = "scan" /\ task[t].scanPhase = "sample"
        /\ ScanFindsNothing(task[t]) /\ PipelineStep(t))
         => (task'[t].pc = "done"
               <=> now - task[t].rangeStart > MAX_VERIFICATION_TIME)]_vars

\* the direct check inside checkActivityFast is about to return false: the
\* transaction count of the address does not grow over the window
DirectFindsNothing(tk) ==
  /\ tk.pc = "caf_direct"
  /\ TransactionCount(tk.addr, tk.endBlock) = TransactionCount(tk.addr, tk.startBlock)

\* C23: the first log scan checkActivityFast issues covers the most recent
\* RECENT_BLOCKS blocks of the window [startBlock, endBlock], and it is
\* issued on every run, before any sampling or batch scan
C23_RecentBlocksOfWindowFirst ==
  [][\A t \in Tasks :
       (DirectFindsNothing(task[t]) /\ PipelineStep(t))
         => /\ task'[t].pc = "scan" /\ task'[t].scanPhase = "recent"
            /\ ScanRange(task'[t]) =
                 [from |-> Max(task[t].startBlock, task[t].endBlock - RECENT_BLOCKS),
                  to |-> task[t].endBlock]]_vars

\* C24: for a window with startBlock <= endBlock of at most
\* MAX_BLOCKS_TO_SCAN blocks the batches of checkActivityFast cover every
\* block, so with a reliable ledger that answers in time a Transfer log of
\* the address anywhere in the window yields true
C24_BatchesCoverWindow ==
  \A t \in Tasks :
    (/\ Reliable /\ InTime /\ admin = 0 /\ config = "A"
     /\ Computed(task[t]) /\ task[t].via = "service"
     /\ task[t].fn = "hasInteractedInTimeRange" /\ task[t].req.campaignId = ""
     /\ task[t].contractId = "c1"
     /\ WindowOf(task[t], "A").from <= WindowOf(task[t], "A").to
     /\ WindowOf(task[t], "A").to - WindowOf(task[t], "A").from <= MAX_BLOCKS_TO_SCAN
     /\ \E b \in TransferBlocks(task[t]) :
          WindowOf(task[t], "A").from <= b /\ b <= WindowOf(task[t], "A").to)
      => task[t].result

\* a direct check has returned after both of its transaction-count reads
\* had resolved
DirectAnswered(tk) ==
  tk.fn = "checkDirectTransactionInteractions" /\ tk.pc = "done" /\ tk.reads = 2

CountAtEnd(tk) == TransactionCount(tk.addr, tk.endBlock)
CountAtStart(tk) == TransactionCount(tk.addr, tk.startBlock)

\* C25 as stated: when both transaction-count reads succeed the direct check
\* returns true whenever the two counts differ, and false only when they
\* are equal
C25_TrueIffCountsDiffer ==
  DirectAnswered(task[1]) => (task[1].result <=> CountAtEnd(task[1]) # CountAtStart(task[1]))

\* C25, with "the count at endBlock is greater than the count at startBlock"
\* in the place of "differs"
C25_TrueIffCountGrows ==
  DirectAnswered(task[1]) => (task[1].result <=> CountAtEnd(task[1]) > CountAtStart(task[1]))

\* the direct check has returned true for a growing count although the
\* contract has no Transfer log of the address anywhere
C25_TrueWithoutLog ==
  /\ DirectAnswered(task[1]) /\ task[1].result
  /\ CountAtEnd(task[1]) > CountAtStart(task[1])
  /\ SentLogs(task[1].contractAddress, task[1].addr) = {}
  /\ ReceivedLogs(task[1].contractAddress, task[1].addr) = {}

\* the sub-range the getLogs call of a suspended direct check asks for
DirectQueryRange(tk) == DirectRange(tk.startBlock, tk.endBlock, tk.scanPos)

\* the pending getLogs call of the direct check can come back non-empty
DirectQueryHasLog(tk) ==
  LET b == IF tk.pc = "dc_sent" THEN SentLogs(tk.contractAddress, tk.addr)
           ELSE ReceivedLogs(tk.contractAddress, tk.addr)
  IN AnyLog(b, DirectQueryRange(tk).from, DirectQueryRange(tk).to)

\* the direct check goes on with the sub-range after the one it is at
ToNextSubRange(tk, tu) ==
  IF tk.scanPos < 2
  THEN tu.pc = "dc_sent" /\ tu.scanPos = tk.scanPos + 1
  ELSE tu.pc = "done" /\ tu.result

\* C26: with a transaction-count delta the direct check queries the most
\* recent third, then the middle third, then the earliest third, in each the
\* sender filter before the recipient filter; it returns true at the first
\* non-empty result and issues no query after it; a failing query makes it
\* go on with the next sub-range
C26_SubRangeOrder ==
  /\ [](task[1].pc \in {"dc_sent", "dc_received"} =>
          LET tk == task[1]
              third == (tk.endBlock - tk.startBlock) \div 3
          IN /\ tk.scanPos \in 0..2
             /\ CountAtEnd(tk) > CountAtStart(tk)
             /\ tk.scanPos = 0 => DirectQueryRange(tk) = [from |-> tk.endBlock - third,
                                                         to |-> tk.endBlock]
             /\ tk.scanPos = 1 => DirectQueryRange(tk) = [from |-> tk.startBlock + third,
                                                         to |-> tk.endBlock - third]
             /\ tk.scanPos = 2 => DirectQueryRange(tk) = [from |-> tk.startBlock,
                                                         to |-> tk.startBlock + third])
  /\ [][LET tk == task[1]
            tu == task'[1]
        IN /\ (tk.pc = "dc_start" /\ tu.pc \notin {"dc_start", "done"})
                => (tu.pc = "dc_sent" /\ tu.scanPos = 0)
           /\ (tk.pc = "dc_sent" /\ tu # tk)
                => \/ tu.pc = "done" /\ tu.result /\ DirectQueryHasLog(tk)
                   \/ /\ tu.pc = "dc_received" /\ tu.scanPos = tk.scanPos
                      /\ ~DirectQueryHasLog(tk)
                   \/ ~Reliable /\ ToNextSubRange(tk, tu)
           /\ (tk.pc = "dc_received" /\ tu # tk)
                => \/ tu.pc = "done" /\ tu.result /\ DirectQueryHasLog(tk)
                   \/ (~Reliable \/ ~DirectQueryHasLog(tk)) /\ ToNextSubRange(tk, tu)
           /\ tk.pc = "done" => tu = tk]_vars

\* the recipient query of the most recent third has ended a direct check
\* whose sender query of that third was empty
C26_RecipientHitInRecentThird ==
  /\ Reliable /\ DirectAnswered(task[1]) /\ task[1].result
  /\ task[1].addr = "0xdd" /\ task[1].contractAddress = "X"
  /\ task[1].startBlock = 1 /\ task[1].endBlock = 7000

\* C27: checkDirectTransactionInteractions never throws: a failure of the
\* provider lookup, of a transaction-count read or of a log query is caught
\* inside it, and when the counts could not be read it returns false
C27_DirectNeverThrows ==
  /\ task[1].thrown = ""
  /\ task[1].pc \in {"dc_end", "dc_start", "dc_sent", "dc_received", "done"}
  /\ (task[1].pc = "done" /\ task[1].reads < 2) => (task[1].returned /\ ~task[1].result)
  /\ (task[1].pc = "done" /\ ~ContractKnown(config, task[1].contractId))
       => (task[1].reads = 0 /\ ~task[1].queried)

\* the second transaction-count read of a direct check was rejected and the
\* check has returned false
C27_CountReadFailed ==
  /\ task[1].fn = "checkDirectTransactionInteractions"
  /\ task[1].pc = "done" /\ task[1].reads = 1
  /\ task[1].returned /\ ~task[1].result /\ task[1].thrown = ""
  /\ CountAtEnd(task[1]) > CountAtStart(task[1])

\* the place of an await in the order of the steps of a verification: head
\* block, privileged-role check, window, direct check, scanner
Stage(pc) ==
  CASE pc = "idle" -> 0
    [] pc = "hi_head" -> 1
    [] pc \in {"hi_minter", "tr_minter"} -> 2
    [] pc \in {"tr_start", "tr_end"} -> 3
    [] pc = "tr_direct" -> 4
    [] pc = "caf_head" -> 5
    [] pc = "caf_direct" -> 6
    [] pc = "scan" -> 7
    [] OTHER -> 8

\* the ledger value the pending step of the task waits for is a positive one
PositivePending(tk) ==
  \/ tk.pc \in {"hi_minter", "tr_minter"}
       /\ toLowerCase(Minter(tk.target)) = toLowerCase(tk.addr)
  \/ tk.pc \in {"tr_direct", "caf_direct"}
       /\ TransactionCount(tk.addr, tk.endBlock) > TransactionCount(tk.addr, tk.startBlock)

\* C28: on a cache miss the privileged-role check comes first, then the
\* direct check, then the scanner: a log scan is issued only after the direct
\* check has returned false, and a positive result of a step ends the
\* pipeline with no query of a later step
C28_StepOrder ==
  [][\A t \in Tasks :
       LET tk == task[t]
           tu == task'[t]
       IN /\ (tk.pc # "idle" /\ PipelineStep(t)) => Stage(tu.pc) >= Stage(tk.pc)
          /\ (tu.pc = "scan" /\ tk.pc # "scan")
               => (tk.pc = "caf_direct" /\ (~PositivePending(tk) \/ ~Reliable))
          /\ (PositivePending(tk) /\ Reliable /\ PipelineStep(t))
               => (tu.pc = "done" /\ (~tk.returned => (tu.result /\ tu.thrown = "")))
          /\ (tk.pc \in {"hi_minter", "tr_minter", "tr_direct", "caf_direct"}
                /\ tu.pc = "done" /\ ~tk.returned /\ tu.thrown = "" /\ tu.result)
               => PositivePending(tk)
          /\ tk.pc = "done" => tu.pc = "done"]_vars

\* over the reliable ledger a verification has ended true on the direct
\* check, for an address that is no minter
C28_EndedAtDirectCheck ==
  \E t \in Tasks :
    /\ Reliable /\ Computed(task[t]) /\ task[t].result /\ task[t].queried
    /\ task[t].addr = "0xaa" /\ task[t].writes # {}

\* the ways an invocation of queryWithRetry ends in its catch block
FailedEnds == {"err", "timeout", "nocontract"}

\* the retry machine between two awaits of one query
RetryShape(tk) ==
  /\ tk.attempts <= MAX_RETRIES + 1
  /\ tk.attempts = tk.retryCount + 1
  /\ \A k \in 1..Len(tk.ends) : k < Len(tk.ends) => tk.ends[k] \in FailedEnds
  /\ tk.pc = "qr_race" =>
       /\ Len(tk.ends) = tk.attempts - 1
       /\ tk.deadline = tk.timerSet + 3000
       /\ now >= tk.timerSet
  /\ tk.pc = "qr_delay" =>
       /\ Len(tk.ends) = tk.attempts
       /\ tk.ends[tk.attempts] \in FailedEnds
       /\ tk.attempts <= MAX_RETRIES
       /\ tk.deadline = tk.timerSet + 300 * tk.attempts
  /\ tk.pc = "done" => Len(tk.ends) = tk.attempts

\* what one step of the retry machine does to the pending attempt
RetryProgress(tk, tk2) ==
  /\ tk2.attempts # tk.attempts =>
       /\ tk.pc = "qr_delay"
       /\ tk2.attempts = tk.attempts + 1
       /\ now >= tk.timerSet + 300 * tk.attempts
  /\ Len(tk2.ends) # Len(tk.ends) /\ tk2.attempts = tk.attempts =>
       /\ tk.pc = "qr_race"
       /\ tk2.pc # "qr_race"
       /\ tk2.ends[Len(tk2.ends)] = "timeout" => now >= tk.timerSet + 3000
       /\ tk2.ends[Len(tk2.ends)] \in {"err", "timeout"} =>
            IF tk.attempts <= MAX_RETRIES
            THEN tk2.pc = "qr_delay" /\ tk2.timerSet = now
            ELSE tk2.pc = "done"
  /\ tk.pc = "done" => tk2 = tk

\* C29: one query is attempted at most MAX_RETRIES + 1 = 3 times; the timer of
\* an attempt is set for 3000 ms and the attempt is over in the step in which
\* the timer fires, which is not before that time; an attempt that timed out
\* is followed by the same delay and retry as one that failed; and the timer
\* before retry number k is set for 300 * k ms, the retry starting no earlier.
C29_BoundedAttemptsLinearDelay ==
  /\ [](RetryShape(task[1]))
  /\ [][RetryProgress(task[1], task'[1])]_vars

\* a query whose first attempt timed out, whose second failed and whose third
\* was answered, 300 and then 600 ms having been waited
C29_TimedOutThenFailedThenAnswered ==
  /\ task[1].fn = "queryWithRetry"
  /\ task[1].pc = "done"
  /\ task[1].ends = <<"timeout", "err", "ok">>
  /\ task[1].logs = {4000}
  /\ now >= 3000 + 300 + 600

\* C30: queryWithRetry never rejects; whatever the endpoint does (answers,
\* errors, no response at all) and whatever the contract id, the invocation
\* comes to an end; and when every attempt failed or timed out it returns
\* the empty list.
C30_AlwaysResolves ==
  /\ [](task[1].thrown = "")
  /\ [](task[1].pc = "done" =>
          /\ task[1].returned
          /\ task[1].ends[Len(task[1].ends)] \in FailedEnds =>
               task[1].attempts = MAX_RETRIES + 1 /\ task[1].logs = {})
  /\ <>(task[1].pc = "done")

\* three attempts that the endpoint left unanswered, for a range in which the
\* ledger holds a log: the empty list is returned
C30_EmptyAfterThreeTimeouts ==
  /\ task[1].fn = "queryWithRetry"
  /\ task[1].pc = "done"
  /\ task[1].returned
  /\ task[1].ends = <<"timeout", "timeout", "timeout">>
  /\ queryFilter(task[1].contractAddress, task[1].req.filter,
                 task[1].req.fromBlock, task[1].req.toBlock) # {}
  /\ task[1].logs = {}

\* the ledger holds a Transfer log of the address in the range of the scan
\* the task is suspended at
ScanRangeHasLog(tk) ==
  \/ AnyLog(SentLogs(tk.target, tk.addr), ScanRange(tk).from, ScanRange(tk).to)
  \/ AnyLog(ReceivedLogs(tk.target, tk.addr), ScanRange(tk).from, ScanRange(tk).to)

\* the scan of tu is the one that follows the scan of tk in the plan of
\* checkActivityFast: recent blocks, then 31 samples and the middle sweep,
\* or batches of batchSize blocks
NextInPlan(tk, tu) ==
  /\ tu.pc = "scan"
  /\ CASE tk.scanPhase = "recent" ->
            IF tk.endBlock - tk.startBlock > MAX_BLOCKS_TO_SCAN
            THEN tu.scanPhase = "sample" /\ tu.scanPos = 0
            ELSE tu.scanPhase = "batch" /\ tu.scanPos = tk.startBlock
       [] tk.scanPhase = "sample" ->
            IF tk.scanPos < 30
            THEN tu.scanPhase = "sample" /\ tu.scanPos = tk.scanPos + 1
            ELSE tu.scanPhase = "final"
       [] tk.scanPhase = "batch" ->
            tu.scanPhase = "batch" /\ tu.scanPos = tk.scanPos + 3000
       [] OTHER -> FALSE

\* no scan follows the scan of tk in the plan
EndOfPlan(tk) ==
  \/ tk.scanPhase = "final"
  \/ tk.scanPhase = "batch" /\ tk.scanPos + 3000 >= tk.endBlock
  \/ /\ tk.scanPhase = "recent"
     /\ tk.endBlock - tk.startBlock <= MAX_BLOCKS_TO_SCAN
     /\ tk.startBlock >= tk.endBlock

\* the check that follows a sample or a batch fires: performance.now() less
\* the rangeStart in scope exceeds MAX_VERIFICATION_TIME
ScanAbort(tk) ==
  \/ tk.scanPhase = "sample" /\ now - ScanRange(tk).from > MAX_VERIFICATION_TIME
  \/ tk.scanPhase = "batch" /\ now - tk.rangeStart > MAX_VERIFICATION_TIME

EstimateFor(b, h, ts, T) ==
  /\ T >= ts => b = h
  /\ T < ts => \E k \in 0..(ts - T) :
                 /\ 5 * k <= 2 * (ts - T)
                 /\ 2 * (ts - T) < 5 * (k + 1)
                 /\ b = (IF h - k >= 1 THEN h - k ELSE 1)
  /\ 1 <= b /\ b <= h

\* the target timestamp, in seconds, of a date in ms
SecondsOf(dateMs) == CHOOSE T \in -2..200 : 1000 * T <= dateMs /\ dateMs < 1000 * (T + 1)

\* C32: getApproximateBlockForDate returns the head block for a target at or
\* after the head timestamp, and otherwise head - floor((headTimestamp -
\* target) / 2.5), floored at block 1; the result lies in [1, head].
C32_EstimateValue ==
  [][/\ (task[1].pc = "ab_start" /\ task'[1].pc = "ab_end")
          => EstimateFor(task'[1].startBlock, env.head, env.headTimestamp,
                         SecondsOf(task[1].winStart))
     /\ (task[1].pc = "ab_end" /\ task'[1].pc = "done")
          => EstimateFor(task'[1].endBlock, env.head, env.headTimestamp,
                         SecondsOf(task[1].winEnd))]_vars

\* a date so far before the head that the estimate is floored at block 1
C32_FlooredAtOne ==
  /\ task[1].fn = "getApproximateBlockForDate"
  /\ task[1].pc = "ab_end"
  /\ task[1].currentBlock = 40
  /\ task[1].winStart = -1500
  /\ task[1].startBlock = 1

\* the second call of the task returns, the head not having moved since the
\* first, for a target timestamp later than that of the first
SameHeadLaterTarget ==
  /\ task[1].pc = "ab_end"
  /\ task'[1].pc = "done"
  /\ env.head = task[1].currentBlock
  /\ SecondsOf(task[1].winStart) < SecondsOf(task[1].winEnd)

\* C33 as stated: for a fixed head, of two timestamps t1 < t2 the later one
\* maps to a strictly later block.
C33_StrictlyLaterBlock ==
  [][SameHeadLaterTarget => task'[1].endBlock > task[1].startBlock]_vars

\* C33: for a fixed head, of two timestamps t1 < t2 the later one never maps
\* to an earlier block (it may map to the same block).
C33_NeverEarlierBlock ==
  [][SameHeadLaterTarget => task'[1].endBlock >= task[1].startBlock]_vars

\* two dates a second apart, before the head timestamp, mapped to one block
\* between block 1 and the head, the head not having moved
C33_TwoDatesOneBlock ==
  /\ task[1].fn = "getApproximateBlockForDate"
  /\ task[1].pc = "done"
  /\ ticks = 0
  /\ task[1].winStart = 95000 /\ task[1].winEnd = 96500
  /\ task[1].startBlock = task[1].endBlock
  /\ task[1].endBlock > 1 /\ task[1].endBlock < env.head

\* C37: for startDate <= endDate the blocks of the two successive calls
\* satisfy startBlock <= endBlock, also when the head of the chain moves
\* between the calls.
C37_StartBlockBeforeEndBlock ==
  [][(/\ task[1].pc = "ab_end"
      /\ task'[1].pc = "done"
      /\ task[1].winStart <= task[1].winEnd)
       => task[1].startBlock <= task'[1].endBlock]_vars

\* the absolute difference, in seconds, between the timestamp of a block and
\* the target of the search of the task
TargetDiff(tk, b) ==
  LET T == tk.req.targetDate \div 1000
      ts == BlockTimestamp(b)
  IN IF ts >= T THEN ts - T ELSE T - ts

\* C34: the search asks for at most MAX_ITERATIONS = 20 blocks, one more at
\* each step until it ends, so it ends; a block that comes back null or
\* throws moves the lower boundary past it and the search goes on without
\* throwing; and a search that met no block with the target's timestamp
\* returns, of the head and the sampled blocks that resolved, one whose
\* timestamp is nearest to the target.
C34_SearchBoundedAndNearest ==
  /\ [](LET tk == task[1] IN
          /\ tk.iterations <= 20
          /\ Cardinality(tk.sampled) + tk.failures <= tk.iterations
          /\ tk.pc = "sb_mid" =>
               /\ tk.iterations = Cardinality(tk.sampled) + tk.failures + 1
               /\ tk.low <= tk.mid /\ tk.mid <= tk.high
          /\ (/\ tk.pc = "done" /\ tk.thrown = "" /\ tk.currentBlock # NoBlock
              /\ \A b \in tk.sampled : TargetDiff(tk, b) # 0)
               => /\ tk.foundBlock \in tk.sampled \cup {tk.currentBlock}
                  /\ \A b \in tk.sampled \cup {tk.currentBlock} :
                       TargetDiff(tk, tk.foundBlock) <= TargetDiff(tk, b))
  /\ [][LET tk == task[1]
            tu == task'[1]
        IN tk.pc = "sb_mid" =>
             /\ tu.pc = "done" \/ (tu.pc = "sb_mid" /\ tu.iterations = tk.iterations + 1)
             /\ tu.sampled = tk.sampled =>
                  /\ tu.thrown = ""
                  /\ tu.low = tk.mid + 1 /\ tu.high = tk.high
                  /\ tu.pc = "done" => tu.low > tu.high \/ tk.iterations = 20]_vars

\* a search over two million blocks that ended after 20 samples, two of them
\* unresolved, with a sampled block as the nearest
C34_TwentySamplesTwoUnresolved ==
  /\ task[1].fn = "getAccurateBlockForDate"
  /\ task[1].pc = "done"
  /\ task[1].iterations = 20
  /\ task[1].failures = 2
  /\ task[1].low <= task[1].high
  /\ task[1].foundBlock \in task[1].sampled

\* what the cache key of a call is made from
KeyParts(tk) ==
  <<tk.fn, tk.contractId, tk.campaignId, tk.addr, tk.startDate, tk.endDate>>

\* C35: the cache key is injective: two calls of hasInteracted or
\* hasInteractedInTimeRange that differ in the method, the contract id, the
\* campaign id or its absence, the normalized address or the explicit window
\* never have the same cache key.
C35_KeyInjective ==
  \A t \in Tasks, u \in Tasks :
    (/\ task[t].cacheKey # ""
     /\ task[t].cacheKey = task[u].cacheKey)
      => KeyParts(task[t]) = KeyParts(task[u])

\* the range lies inside the window and is not inverted
RangeInWindow(range, startBlock, endBlock) ==
  /\ range.from <= range.to
  /\ startBlock <= range.from
  /\ range.to <= endBlock

\* C36: for a window with startBlock <= endBlock every log query of the
\* direct check (the three thirds) and of checkActivityFast (recent blocks,
\* samples, middle sweep, batches) has fromBlock <= toBlock and lies inside
\* the window, so a log found by a scan is a log of the window.
C36_QueriesInsideWindow ==
  \A t \in Tasks :
    LET tk == task[t] IN
    /\ (tk.pc \in {"tr_direct", "caf_direct"} /\ tk.startBlock <= tk.endBlock)
         => \A r \in 0..2 :
              RangeInWindow(DirectRange(tk.startBlock, tk.endBlock, r),
                            tk.startBlock, tk.endBlock)
    /\ (tk.pc = "scan" /\ tk.startBlock <= tk.endBlock)
         => RangeInWindow(ScanRange(tk), tk.startBlock, tk.endBlock)

\* a sample at the first sampling point of a wide window: the range around
\* the point is cut at the start of the window
C36_FirstSampleCutAtStart ==
  \E t \in Tasks :
    /\ task[t].pc = "scan"
    /\ task[t].scanPhase = "sample"
    /\ task[t].scanPos = 0
    /\ task[t].startBlock < task[t].endBlock
    /\ ScanRange(task[t]) = [from |-> task[t].startBlock, to |-> task[t].startBlock + 2000]

\* the step adds no entry to the cache and changes the verdict of none
NothingCached ==
  \A k \in DOMAIN cache' : k \in DOMAIN cache /\ cache'[k].v = cache[k].v
                                              /\ cache'[k].t = cache[k].t

\* C38: a call of hasInteracted or hasInteractedInTimeRange that ends by
\* throwing has written no cache entry: no step of a call that has not
\* returned a verdict in it, the throwing step included, adds an entry or
\* changes the verdict or the time of one.
C38_ThrowingCallCachesNothing ==
  /\ [](\A t \in Tasks : task[t].thrown # "" => task[t].writes = {})
  /\ [][\A t \in Tasks :
          (/\ task'[t] # task[t]
           /\ task'[t].fn \in {"hasInteracted", "hasInteractedInTimeRange"}
           /\ ~(task'[t].returned /\ task'[t].thrown = ""))
            => NothingCached]_vars

\* a call threw after its ledger query failed, while the cache holds the
\* verdict of an earlier call and nothing under the key of this one
C38_ThrownBesideCachedVerdict ==
  \E t \in Tasks :
    /\ task[t].fn \in {"hasInteracted", "hasInteractedInTimeRange"}
    /\ task[t].thrown = "ledger"
    /\ task[t].queried
    /\ cache # EmptyCache
    /\ task[t].cacheKey \notin DOMAIN cache

\* C39: the contract ids that have a provider are the contract ids that have
\* a contract handle, in every state the handle pool reaches through
\* initializeContract (also when it throws), getProvider, getContract and
\* reloadContractConfigurations.
C39_ProvidersMatchContracts ==
  DOMAIN providers = DOMAIN contracts

\* after a reload, one call has got handles for its contract and another has
\* thrown because its contract could not be initialized
C39_FailedInitBesideHandles ==
  /\ admin > 0
  /\ DOMAIN providers # {}
  /\ \E t \in Tasks :
       /\ task[t].thrown = "contract"
       /\ task[t].campaignId = ""
       /\ ~ContractKnown(config, task[t].contractId)
       /\ task[t].contractId \notin DOMAIN providers

====
